---- MODULE Spec2Model ----
(***************************************************************************)
(* Workout API (Django REST framework views over MongoEngine documents).   *)
(* The store (user accounts, profiles, exercise catalog, workouts,         *)
(* sessions, exercise logs) is the state; every request handler is one     *)
(* action that reads a caller and a request body, changes the store and    *)
(* leaves its HTTP response in resp.                                       *)
(***************************************************************************)
EXTENDS Integers, Sequences, FiniteSets, TLC

VARIABLES
    users,      \* registered accounts (django.contrib.auth User rows)
    passwords,  \* account -> the password check_password accepts
    emails,     \* account -> the email of its User row
    tokens,     \* account -> key of its authtoken Token row, None without one
    inflight,   \* the request that is between its first read and its save
    profiles,   \* accounts that have a UserProfile document (keyed by user_id)
    exercises,  \* catalog: exercise id -> Exercise document
    workouts,   \* workout id -> Workout document (entries embedded)
    sessions,   \* session id -> WorkoutSession document
    logs,       \* log id -> ExerciseLog document
    nextId,     \* next fresh id of each collection
    now,        \* the clock read by datetime.utcnow()
    resp        \* the response of the last request

vars ==
    <<users, passwords, emails, tokens, inflight, profiles, exercises, workouts, sessions, logs, nextId, now, resp>>

----------------------------------------------------------------------------
(* Bounds of the model *)

MaxExercises == 2
MaxWorkouts == 2
MaxSessions == 1
MaxLogs == 1
MaxTime == 1
MaxClock == 120
MaxTokens == 3

(* HTTP status codes used by the handlers *)
HTTP_200 == 200
HTTP_201 == 201
HTTP_204 == 204
HTTP_400 == 400
HTTP_401 == 401
HTTP_403 == 403
HTTP_404 == 404
HTTP_500 == 500

(* Field defaults *)
DefaultSets == 3
DefaultRest == 60

----------------------------------------------------------------------------
(* Optional values: None is an absent / null field, Some(x) a present one *)

None == <<>>
Some(x) == <<x>>
IsSome(o) == o # <<>>
Val(o) == o[1]
OrElse(o, d) == IF o = <<>> THEN d ELSE o[1]

----------------------------------------------------------------------------
(* Principals *)

Anonymous == "anonymous"
Accounts == {"alice", "root"}
Callers == Accounts \cup {Anonymous}

\* request.user.is_staff: set outside the API (createsuperuser)
IsStaff(c) == c = "root"

\* request.user.is_authenticated
IsAuthenticated(c) == c \in users

\* UserProfile.objects.get(user_id=request.user.id) succeeds
HasProfile(c) == c \in profiles

ExerciseIds == 1..MaxExercises
WorkoutIds == 1..MaxWorkouts
SessionIds == 1..MaxSessions
LogIds == 1..MaxLogs

NoBody == [kind |-> "none"]

Response(op, c, pk, st, ids, body) ==
    [op |-> op, caller |-> c, target |-> pk, status |-> st, ids |-> ids, body |-> body]

\* DRF rejects a request without credentials before the handler runs
\* (IsAuthenticated, and IsAuthenticatedOrReadOnly on unsafe methods).
NotAuthenticatedStatus == HTTP_401

\* passwords a request can carry: "" is a missing field
Passwords == {"pw1", "pw2"}
PasswordInputs == Passwords \cup {""}

\* token keys a request can carry: 0 is no Authorization header, and
\* MaxTokens + 1 a key that was never issued
Keys == 0..(MaxTokens + 1)

\* the credentials a request offered or set, and the token the response returns
Credentials(u, pw, key) ==
    [kind |-> "credentials", username |-> u, password |-> pw, token |-> key]

\* Token authentication: the principal is the account whose Token row has
\* the key of the Authorization header, none when no row has it.
TokenOwner(rows, key) ==
    IF \E u \in DOMAIN rows : rows[u] = Some(key)
    THEN CHOOSE u \in DOMAIN rows : rows[u] = Some(key)
    ELSE Anonymous

Authenticate(key) == TokenOwner(tokens, key)

\* the email a person registers with when the request does not say otherwise
Mailbox(u) == u \o "@example.com"
Emails == {Mailbox(u) : u \in Accounts}

\* User.objects.filter(email=email).exclude(id=user.id).exists()
EmailTaken(email, u) == \E a \in users \ {u} : emails[a] = email

\* no request is between its first read and its save
Idle == [pc |-> "idle"]

----------------------------------------------------------------------------
(* Accounts and profiles *)

Init ==
    /\ users = {"root"}
    /\ passwords = [u \in {"root"} |-> "pw1"]
    /\ emails = [u \in {"root"} |-> Mailbox("root")]
    /\ tokens = [u \in {"root"} |-> None]
    /\ inflight = Idle
    /\ profiles = {}
    /\ exercises = <<>>
    /\ workouts = <<>>
    /\ sessions = <<>>
    /\ logs = <<>>
    /\ nextId = [exercise |-> 1, workout |-> 1, session |-> 1, log |-> 1, token |-> 1]
    /\ now = 0
    /\ resp = Response("init", Anonymous, 0, HTTP_200, {}, NoBody)

\* the try block of register: User.objects.create_user, the profile save
\* (a failure is swallowed and the account then has no profile), the token.
\* The username column of User is unique, so creating a second row with a
\* username raises, and the handler answers 500; its email column is not.
create_user(u, pw, email, profileSaved) ==
    IF u \in users
    THEN /\ resp' = Response("register", u, 0, HTTP_500, {}, NoBody)
         /\ UNCHANGED <<users, passwords, emails, tokens, nextId, profiles>>
    ELSE /\ nextId.token <= MaxTokens
         /\ users' = users \cup {u}
         /\ passwords' = [a \in users' |-> IF a = u THEN pw ELSE passwords[a]]
         /\ emails' = [a \in users' |-> IF a = u THEN email ELSE emails[a]]
         /\ tokens' = [a \in users' |-> IF a = u THEN Some(nextId.token) ELSE tokens[a]]
         /\ nextId' = [nextId EXCEPT !.token = @ + 1]
         /\ profiles' = IF profileSaved THEN profiles \cup {u} ELSE profiles
         /\ resp' = Response("register", u, 0, HTTP_201, {},
                             Credentials(u, pw, Some(nextId.token)))

\* POST auth/register/ with a username that is free: the email is tested,
\* then the account is created
register(u, pw, email, profileSaved) ==
    /\ u \in Accounts \ users
    /\ email \in Emails
    /\ IF EmailTaken(email, u)
       THEN /\ resp' = Response("register", u, 0, HTTP_400, {}, NoBody)
            /\ UNCHANGED <<users, passwords, emails, tokens, nextId, profiles>>
       ELSE create_user(u, pw, email, profileSaved)
    /\ UNCHANGED <<inflight, exercises, workouts, sessions, logs, now>>

\* register up to its two exists() tests, both passed
RegisterCheck(u, pw, email) ==
    /\ inflight = Idle
    /\ u \in Accounts \ users
    /\ email \in Emails
    /\ ~EmailTaken(email, u)
    /\ inflight' = [pc |-> "creating", op |-> "register", caller |-> u, pk |-> 0,
                    body |-> Credentials(u, pw, None), email |-> email]
    /\ UNCHANGED <<users, passwords, emails, tokens, profiles, exercises, workouts,
                   sessions, logs, nextId, now, resp>>

\* register from User.objects.create_user on
RegisterCreate(profileSaved) ==
    /\ inflight # Idle
    /\ inflight.op = "register"
    /\ create_user(inflight.caller, inflight.body.password, inflight.email,
                   profileSaved)
    /\ inflight' = Idle
    /\ UNCHANGED <<exercises, workouts, sessions, logs, now>>

\* PUT/PATCH auth/profile/: the email, when one is sent, is tested and set;
\* the profile is created when it is missing, unless that save fails
update_profile(c, email, profileSaved) ==
    /\ c \in users \cup {Anonymous}
    /\ email \in {None} \cup {Some(e) : e \in Emails}
    /\ IF ~IsAuthenticated(c)
       THEN /\ resp' = Response("update_profile", c, 0, NotAuthenticatedStatus, {}, NoBody)
            /\ UNCHANGED <<emails, profiles>>
       ELSE IF IsSome(email) /\ EmailTaken(Val(email), c)
       THEN /\ resp' = Response("update_profile", c, 0, HTTP_400, {}, NoBody)
            /\ UNCHANGED <<emails, profiles>>
       ELSE /\ emails' = IF IsSome(email) THEN [emails EXCEPT ![c] = Val(email)]
                                          ELSE emails
            /\ profiles' = IF profileSaved THEN profiles \cup {c} ELSE profiles
            /\ resp' = Response("update_profile", c, 0, HTTP_200, {}, NoBody)
    /\ UNCHANGED <<users, passwords, tokens, inflight, exercises, workouts, sessions,
                   logs, nextId, now>>

\* accounts: registrations step by step and at once, and profile updates
AccountNext ==
    \/ \E u \in Accounts, pw \in Passwords, email \in Emails : RegisterCheck(u, pw, email)
    \/ \E saved \in BOOLEAN : RegisterCreate(saved)
    \/ \E u \in Accounts, pw \in Passwords, email \in Emails, saved \in BOOLEAN :
          register(u, pw, email, saved)
    \/ \E c \in Callers, email \in {None} \cup {Some(e) : e \in Emails},
          saved \in BOOLEAN : update_profile(c, email, saved)

SpecAccount == Init /\ [][AccountNext]_vars

\* GET auth/me/: creates the profile when it is missing.
\* key is the token the request carried, 0 where the header is left out of
\* the model and c is the principal authentication resolved.
get_current_user(c, key) ==
    /\ c \in Callers
    /\ IF ~IsAuthenticated(c)
       THEN /\ resp' = Response("me", c, key, NotAuthenticatedStatus, {}, NoBody)
            /\ UNCHANGED profiles
       ELSE /\ profiles' = profiles \cup {c}
            /\ resp' = Response("me", c, key, HTTP_200, {}, NoBody)
    /\ UNCHANGED <<users, emails, inflight, passwords, tokens, exercises, workouts, sessions, logs, nextId, now>>

\* authenticate(username=, password=): the account, when the password is its own
authenticate(u, pw) == u \in users /\ passwords[u] = pw

\* POST auth/login/: returns the account's token, creating it (and the
\* profile, unless that save fails) when there is none.
login(u, pw, profileSaved) ==
    /\ u \in Accounts
    /\ pw \in PasswordInputs
    /\ IF pw = ""
       THEN /\ resp' = Response("login", Anonymous, 0, HTTP_400, {},
                                Credentials(u, pw, None))
            /\ UNCHANGED <<tokens, profiles, nextId>>
       ELSE IF ~authenticate(u, pw)
       THEN /\ resp' = Response("login", Anonymous, 0, HTTP_401, {},
                                Credentials(u, pw, None))
            /\ UNCHANGED <<tokens, profiles, nextId>>
       ELSE LET key == OrElse(tokens[u], nextId.token) IN
            /\ IsSome(tokens[u]) \/ nextId.token <= MaxTokens
            /\ tokens' = [tokens EXCEPT ![u] = Some(key)]
            /\ nextId' = IF IsSome(tokens[u]) THEN nextId
                                              ELSE [nextId EXCEPT !.token = @ + 1]
            /\ profiles' = IF profileSaved THEN profiles \cup {u} ELSE profiles
            /\ resp' = Response("login", Anonymous, 0, HTTP_200, {},
                                Credentials(u, pw, Some(key)))
    /\ UNCHANGED <<users, emails, inflight, passwords, exercises, workouts, sessions, logs, now>>

\* request.user.auth_token.delete()
DeletedToken(c) == [tokens EXCEPT ![c] = None]

\* POST auth/logout/ with the token key in the header
logout(key) ==
    /\ key \in Keys
    /\ LET c == Authenticate(key) IN
       IF ~IsAuthenticated(c)
       THEN /\ resp' = Response("logout", c, key, NotAuthenticatedStatus, {}, NoBody)
            /\ UNCHANGED tokens
       ELSE /\ tokens' = DeletedToken(c)
            /\ resp' = Response("logout", c, key, HTTP_200, {}, NoBody)
    /\ UNCHANGED <<users, emails, inflight, passwords, profiles, exercises, workouts, sessions, logs,
                   nextId, now>>

\* variant: the password changes and the token row is left as it was
ReissuedTokenKeepsOld(c) == tokens

\* Token.objects.filter(user=user).delete(); Token.objects.create(user=user)
ReissuedToken(c) == [tokens EXCEPT ![c] = Some(nextId.token)]

\* POST auth/change-password/ with the token key in the header
change_password(key, old_password, new_password, new_password_confirm) ==
    /\ key \in Keys
    /\ {old_password, new_password, new_password_confirm} \subseteq PasswordInputs
    /\ LET c == Authenticate(key)
           refused(st) ==
               /\ resp' = Response("change_password", c, key, st, {},
                                   Credentials(c, new_password, None))
               /\ UNCHANGED <<passwords, tokens, nextId>>
       IN  IF ~IsAuthenticated(c) THEN refused(NotAuthenticatedStatus)
           ELSE IF "" \in {old_password, new_password, new_password_confirm}
           THEN refused(HTTP_400)
           ELSE IF passwords[c] # old_password THEN refused(HTTP_400)
           ELSE IF new_password # new_password_confirm THEN refused(HTTP_400)
           ELSE /\ nextId.token <= MaxTokens
                /\ passwords' = [passwords EXCEPT ![c] = new_password]
                /\ tokens' = ReissuedToken(c)
                /\ nextId' = [nextId EXCEPT !.token = @ + 1]
                /\ resp' = Response("change_password", c, key, HTTP_200, {},
                                    Credentials(c, new_password, Some(nextId.token)))
    /\ UNCHANGED <<users, emails, inflight, profiles, exercises, workouts, sessions, logs, now>>

AuthNext ==
    \/ \E u \in Accounts, pw \in Passwords, saved \in BOOLEAN :
          register(u, pw, Mailbox(u), saved)
    \/ \E u \in Accounts, pw \in PasswordInputs, saved \in BOOLEAN : login(u, pw, saved)
    \/ \E key \in Keys : logout(key)
    \/ \E key \in Keys, old, new, confirm \in PasswordInputs :
          change_password(key, old, new, confirm)
    \/ \E key \in Keys : get_current_user(Authenticate(key), key)

SpecAuth == Init /\ [][AuthNext]_vars

\* datetime.utcnow() advances between requests
Tick ==
    /\ now < MaxTime
    /\ now' = now + 1
    /\ UNCHANGED <<users, emails, inflight, passwords, tokens, profiles, exercises, workouts, sessions, logs, nextId, resp>>

----------------------------------------------------------------------------
(* Exercise catalog (ExerciseViewSet, ExerciseSerializer) *)

\* request bodies: each field is sent (Some) or left out (None)
ExerciseBodies ==
    { [name |-> Some("squat"), difficulty |-> Some("beginner")],
      [name |-> Some("plank"), difficulty |-> Some("expert")],
      [name |-> None,          difficulty |-> Some("expert")] }

\* ExerciseSerializer.is_valid(): required fields must be sent unless partial
ExerciseValid(body, partial) ==
    partial \/ (IsSome(body.name) /\ IsSome(body.difficulty))

\* Exercise(**validated_data) / setattr(instance, key, value) for the sent keys
ExerciseApply(doc, body) ==
    [name |-> OrElse(body.name, doc.name),
     difficulty |-> OrElse(body.difficulty, doc.difficulty)]

\* the unique index on Exercise.name rejects the save (NotUniqueError)
NameTaken(name, except) ==
    \E e \in DOMAIN exercises \ {except} : exercises[e].name = name

\* variant: the is_staff test is left out
ExerciseWriteStatusNoStaffTest(c) ==
    IF ~IsAuthenticated(c) THEN NotAuthenticatedStatus ELSE HTTP_200

\* the check at the head of create/update/partial_update/destroy
ExerciseWriteStatus(c) ==
    IF ~IsAuthenticated(c) THEN NotAuthenticatedStatus
    ELSE IF ~IsStaff(c) THEN HTTP_403
    ELSE HTTP_200

ExerciseList(c) ==
    /\ c \in users \cup {Anonymous}
    /\ resp' = Response("exercise_list", c, 0, HTTP_200, DOMAIN exercises, NoBody)
    /\ UNCHANGED <<users, emails, inflight, passwords, tokens, profiles, exercises, workouts, sessions, logs, nextId, now>>

ExerciseRetrieve(c, pk) ==
    /\ c \in users \cup {Anonymous}
    /\ pk \in ExerciseIds
    /\ resp' = IF pk \in DOMAIN exercises
               THEN Response("exercise_retrieve", c, pk, HTTP_200, {pk},
                             [kind |-> "exercise", doc |-> exercises[pk]])
               ELSE Response("exercise_retrieve", c, pk, HTTP_404, {}, NoBody)
    /\ UNCHANGED <<users, emails, inflight, passwords, tokens, profiles, exercises, workouts, sessions, logs, nextId, now>>

ExerciseCreate(c, body) ==
    /\ c \in users \cup {Anonymous}
    /\ body \in ExerciseBodies
    /\ LET id == nextId.exercise
           st == IF ExerciseWriteStatus(c) # HTTP_200 THEN ExerciseWriteStatus(c)
                 ELSE IF ~ExerciseValid(body, FALSE) THEN HTTP_400
                 ELSE IF NameTaken(Val(body.name), 0) THEN HTTP_500
                 ELSE HTTP_201
       IN /\ st = HTTP_201 => id <= MaxExercises
          /\ IF st = HTTP_201
             THEN /\ exercises' = [e \in DOMAIN exercises \cup {id} |->
                                     IF e = id
                                     THEN [name |-> Val(body.name),
                                           difficulty |-> Val(body.difficulty)]
                                     ELSE exercises[e]]
                  /\ nextId' = [nextId EXCEPT !.exercise = id + 1]
                  /\ resp' = Response("exercise_create", c, id, st, {id}, NoBody)
             ELSE /\ UNCHANGED <<exercises, nextId>>
                  /\ resp' = Response("exercise_create", c, 0, st, {}, NoBody)
    /\ UNCHANGED <<users, emails, inflight, passwords, tokens, profiles, workouts, sessions, logs, now>>

\* update (PUT, partial = FALSE) and partial_update (PATCH, partial = TRUE)
ExerciseUpdate(c, pk, body, partial) ==
    /\ c \in users \cup {Anonymous}
    /\ pk \in ExerciseIds
    /\ body \in ExerciseBodies
    /\ LET op == IF partial THEN "exercise_partial_update" ELSE "exercise_update"
           st == IF ExerciseWriteStatus(c) # HTTP_200 THEN ExerciseWriteStatus(c)
                 ELSE IF pk \notin DOMAIN exercises THEN HTTP_404
                 ELSE IF ~ExerciseValid(body, partial) THEN HTTP_400
                 ELSE IF NameTaken(ExerciseApply(exercises[pk], body).name, pk)
                      THEN HTTP_500
                 ELSE HTTP_200
       IN /\ exercises' = IF st = HTTP_200
                          THEN [exercises EXCEPT ![pk] = ExerciseApply(@, body)]
                          ELSE exercises
          /\ resp' = Response(op, c, pk, st, {}, NoBody)
    /\ UNCHANGED <<users, emails, inflight, passwords, tokens, profiles, workouts, sessions, logs, nextId, now>>

ExerciseDestroy(c, pk) ==
    /\ c \in users \cup {Anonymous}
    /\ pk \in ExerciseIds
    /\ LET st == IF ExerciseWriteStatus(c) # HTTP_200 THEN ExerciseWriteStatus(c)
                 ELSE IF pk \notin DOMAIN exercises THEN HTTP_404
                 ELSE HTTP_204
       IN /\ exercises' = IF st = HTTP_204
                          THEN [e \in DOMAIN exercises \ {pk} |-> exercises[e]]
                          ELSE exercises
          /\ resp' = Response("exercise_destroy", c, pk, st, {}, NoBody)
    /\ UNCHANGED <<users, emails, inflight, passwords, tokens, profiles, workouts, sessions, logs, nextId, now>>

ExerciseNext ==
    \/ \E u \in Accounts, saved \in BOOLEAN : register(u, "pw1", Mailbox(u), saved)
    \/ \E c \in Callers : get_current_user(c, 0)
    \/ \E c \in Callers : ExerciseList(c)
    \/ \E c \in Callers, pk \in ExerciseIds : ExerciseRetrieve(c, pk)
    \/ \E c \in Callers, body \in ExerciseBodies : ExerciseCreate(c, body)
    \/ \E c \in Callers, pk \in ExerciseIds, body \in ExerciseBodies,
          partial \in BOOLEAN : ExerciseUpdate(c, pk, body, partial)
    \/ \E c \in Callers, pk \in ExerciseIds : ExerciseDestroy(c, pk)

SpecExercise == Init /\ [][ExerciseNext]_vars

----------------------------------------------------------------------------
(* Workouts (WorkoutViewSet, WorkoutSerializer, WorkoutExerciseSerializer) *)

\* entries of a request's "exercises" list
EntryA == [exercise_id |-> 1, order |-> 1, sets |-> None, reps |-> Some(10),
           duration |-> None, rest_period |-> None]

\* request bodies: each field is sent (Some) or left out (None); creator is
\* the account a body names as the workout's creator
WorkoutBodies ==
    { [title |-> Some("Legs"), description |-> Some("leg day"),
       difficulty |-> Some("beginner"), is_public |-> Some(TRUE),
       exercises |-> Some(<<EntryA>>), estimated_duration |-> None,
       tags |-> Some(<<"legs">>), creator |-> None],
      [title |-> Some("Core"), description |-> Some("core work"),
       difficulty |-> Some("expert"), is_public |-> None,
       exercises |-> None, estimated_duration |-> Some(30), tags |-> None,
       creator |-> Some("alice")],
      [title |-> None, description |-> None, difficulty |-> None,
       is_public |-> Some(TRUE), exercises |-> None,
       estimated_duration |-> None, tags |-> None, creator |-> Some("root")] }

EntryB == [exercise_id |-> 2, order |-> 2, sets |-> Some(2), reps |-> None,
           duration |-> Some(40), rest_period |-> Some(30)]

\* request bodies that replace an entry list: a full body with two entries,
\* supplied with the higher order first, and a body of one entry and nothing else
ReplacementBodies ==
    { [title |-> Some("Pull"), description |-> Some("pull day"),
       difficulty |-> Some("expert"), is_public |-> None,
       exercises |-> Some(<<EntryB, EntryA>>), estimated_duration |-> None,
       tags |-> None, creator |-> Some("alice")],
      [title |-> None, description |-> None, difficulty |-> None,
       is_public |-> None, exercises |-> Some(<<EntryA>>),
       estimated_duration |-> None, tags |-> None, creator |-> None] }

AllWorkoutBodies == WorkoutBodies \cup ReplacementBodies

\* a request body whose one entry carries a negative rest period
EntryC == [exercise_id |-> 1, order |-> 1, sets |-> Some(3), reps |-> Some(5),
           duration |-> None, rest_period |-> Some(-400)]

NegativeRestBodies ==
    { [title |-> Some("Rush"), description |-> Some("no rest"),
       difficulty |-> Some("expert"), is_public |-> None,
       exercises |-> Some(<<EntryC>>), estimated_duration |-> None,
       tags |-> None, creator |-> None] }

RequestWorkoutBodies == AllWorkoutBodies \cup NegativeRestBodies

\* WorkoutExerciseSerializer: validate_exercise_id, order/sets/reps/duration >= 1
EntryValid(e) ==
    /\ e.exercise_id \in DOMAIN exercises
    /\ e.order >= 1
    /\ OrElse(e.sets, DefaultSets) >= 1
    /\ OrElse(e.reps, 1) >= 1
    /\ OrElse(e.duration, 1) >= 1

\* WorkoutSerializer.is_valid()
WorkoutValid(body, partial) ==
    /\ partial \/ (IsSome(body.title) /\ IsSome(body.description)
                   /\ IsSome(body.difficulty))
    /\ IsSome(body.exercises) =>
          \A i \in 1..Len(Val(body.exercises)) : EntryValid(Val(body.exercises)[i])

\* WorkoutExercise(exercise=exercise, **exercise_data)
NewEntry(e) ==
    [exercise |-> e.exercise_id, order |-> e.order,
     sets |-> OrElse(e.sets, DefaultSets), reps |-> e.reps,
     duration |-> e.duration, rest_period |-> OrElse(e.rest_period, DefaultRest)]

\* the for loop appending one WorkoutExercise per supplied entry, in sequence
BuildEntries(es) == [i \in 1..Len(es) |-> NewEntry(es[i])]

\* variant: a creator named by the body is the creator of the new workout
NewWorkoutCreatorFromBody(c, body) ==
    [title |-> Val(body.title),
     description |-> Val(body.description),
     creator |-> OrElse(body.creator, c),
     is_public |-> OrElse(body.is_public, FALSE),
     estimated_duration |-> body.estimated_duration,
     difficulty |-> Val(body.difficulty),
     tags |-> OrElse(body.tags, <<>>),
     exercises |-> BuildEntries(OrElse(body.exercises, <<>>))]

\* WorkoutSerializer.create: Workout(...) with creator = the caller's profile
NewWorkout(c, body) ==
    [title |-> Val(body.title),
     description |-> Val(body.description),
     creator |-> c,
     is_public |-> OrElse(body.is_public, FALSE),
     estimated_duration |-> body.estimated_duration,
     difficulty |-> Val(body.difficulty),
     tags |-> OrElse(body.tags, <<>>),
     exercises |-> BuildEntries(OrElse(body.exercises, <<>>))]

\* variant: supplied entries are added to the entries the workout has
UpdatedWorkoutMergesEntries(w, body, partial) ==
    [title |-> OrElse(body.title, w.title),
     description |-> OrElse(body.description, w.description),
     creator |-> w.creator,
     is_public |-> IF IsSome(body.is_public) THEN Val(body.is_public)
                   ELSE IF partial THEN w.is_public ELSE FALSE,
     estimated_duration |-> IF IsSome(body.estimated_duration)
                            THEN body.estimated_duration ELSE w.estimated_duration,
     difficulty |-> OrElse(body.difficulty, w.difficulty),
     tags |-> IF IsSome(body.tags) THEN Val(body.tags)
              ELSE IF partial THEN w.tags ELSE <<>>,
     exercises |-> IF IsSome(body.exercises)
                   THEN w.exercises \o BuildEntries(Val(body.exercises))
                   ELSE w.exercises]

\* WorkoutSerializer.update: setattr for every validated key but creator, then
\* the entry list is emptied and rebuilt when one was supplied.  A full update
\* (PUT) fills the declared defaults of is_public and tags when they are left out.
UpdatedWorkout(w, body, partial) ==
    [title |-> OrElse(body.title, w.title),
     description |-> OrElse(body.description, w.description),
     creator |-> w.creator,
     is_public |-> IF IsSome(body.is_public) THEN Val(body.is_public)
                   ELSE IF partial THEN w.is_public ELSE FALSE,
     estimated_duration |-> IF IsSome(body.estimated_duration)
                            THEN body.estimated_duration ELSE w.estimated_duration,
     difficulty |-> OrElse(body.difficulty, w.difficulty),
     tags |-> IF IsSome(body.tags) THEN Val(body.tags)
              ELSE IF partial THEN w.tags ELSE <<>>,
     exercises |-> IF IsSome(body.exercises)
                   THEN BuildEntries(Val(body.exercises)) ELSE w.exercises]

\* variant: the copy keeps the visibility of its source
ClonedWorkoutKeepsVisibility(w, c) ==
    [title |-> w.title \o " (Copy)",
     description |-> w.description,
     creator |-> c,
     is_public |-> w.is_public,
     estimated_duration |-> w.estimated_duration,
     difficulty |-> w.difficulty,
     tags |-> w.tags,
     exercises |-> w.exercises]

\* WorkoutViewSet.clone: the copy handed to save()
ClonedWorkout(w, c) ==
    [title |-> w.title \o " (Copy)",
     description |-> w.description,
     creator |-> c,
     is_public |-> FALSE,
     estimated_duration |-> w.estimated_duration,
     difficulty |-> w.difficulty,
     tags |-> w.tags,
     exercises |-> w.exercises]

\* the loop of calculate_estimated_duration over the entries from the i-th on:
\* duration * sets (30 * sets without a duration) plus rest * (sets - 1) each
RECURSIVE TotalSeconds(_, _)
TotalSeconds(es, i) ==
    IF i > Len(es) THEN 0
    ELSE LET sets == es[i].sets
             rest == es[i].rest_period
             exercise_time == IF IsSome(es[i].duration) /\ Val(es[i].duration) # 0
                              THEN Val(es[i].duration) * sets
                              ELSE 30 * sets
         IN exercise_time + (rest * (sets - 1)) + TotalSeconds(es, i + 1)

\* variant: the first entry is charged a rest period after its last set too
calculate_estimated_duration_rest_every_set(w) ==
    IF Len(w.exercises) = 0 THEN 0
    ELSE (TotalSeconds(w.exercises, 1)
          + 300 + (w.exercises[1].rest_period)) \div 60

\* Workout.calculate_estimated_duration
calculate_estimated_duration(w) ==
    IF Len(w.exercises) = 0 THEN 0
    ELSE (TotalSeconds(w.exercises, 1) + 300) \div 60

\* WorkoutSerializer.to_representation dereferences every entry's exercise; a
\* reference to a deleted exercise raises DoesNotExist, which no handler catches.
WorkoutSerializable(w) ==
    \A i \in 1..Len(w.exercises) : w.exercises[i].exercise \in DOMAIN exercises

\* variant: an authenticated caller is shown every workout
WorkoutQuerysetUnfiltered(c) ==
    IF IsAuthenticated(c)
    THEN DOMAIN workouts
    ELSE {w \in DOMAIN workouts : workouts[w].is_public}

\* WorkoutViewSet.get_queryset before the filters: the visible workouts
WorkoutQueryset(c) ==
    IF IsAuthenticated(c)
    THEN IF HasProfile(c)
         THEN {w \in DOMAIN workouts : workouts[w].is_public \/ workouts[w].creator = c}
         ELSE {w \in DOMAIN workouts : workouts[w].is_public}
    ELSE {w \in DOMAIN workouts : workouts[w].is_public}

\* the ownership test of update/partial_update/destroy:
\* the profile lookup, then workout.creator != user_profile
WorkoutOwnerStatus(c, pk) ==
    IF ~IsAuthenticated(c) THEN NotAuthenticatedStatus
    ELSE IF pk \notin DOMAIN workouts THEN HTTP_404
    ELSE IF ~HasProfile(c) THEN HTTP_404
    ELSE IF workouts[pk].creator # c THEN HTTP_403
    ELSE HTTP_200

\* the visibility test of retrieve
WorkoutViewStatus(c, pk) ==
    IF pk \notin DOMAIN workouts THEN HTTP_404
    ELSE IF workouts[pk].is_public THEN HTTP_200
    ELSE IF ~IsAuthenticated(c) THEN HTTP_401
    ELSE IF ~HasProfile(c) THEN HTTP_404
    ELSE IF workouts[pk].creator # c THEN HTTP_403
    ELSE HTTP_200

\* the visibility test of clone
WorkoutCloneStatus(c, pk) ==
    IF ~IsAuthenticated(c) THEN NotAuthenticatedStatus
    ELSE IF pk \notin DOMAIN workouts THEN HTTP_404
    ELSE IF workouts[pk].is_public THEN HTTP_200
    ELSE IF ~HasProfile(c) THEN HTTP_404
    ELSE IF workouts[pk].creator # c THEN HTTP_403
    ELSE HTTP_200

WorkoutList(c) ==
    /\ c \in users \cup {Anonymous}
    /\ resp' = Response("workout_list", c, 0, HTTP_200, WorkoutQueryset(c), NoBody)
    /\ UNCHANGED <<users, emails, inflight, passwords, tokens, profiles, exercises, workouts, sessions, logs, nextId, now>>

WorkoutRetrieve(c, pk) ==
    /\ c \in users \cup {Anonymous}
    /\ pk \in WorkoutIds
    /\ LET st == IF WorkoutViewStatus(c, pk) # HTTP_200 THEN WorkoutViewStatus(c, pk)
                 ELSE IF ~WorkoutSerializable(workouts[pk]) THEN HTTP_500
                 ELSE HTTP_200
       IN resp' = IF st = HTTP_200
                  THEN Response("workout_retrieve", c, pk, st, {pk},
                                [kind |-> "workout", doc |-> workouts[pk]])
                  ELSE Response("workout_retrieve", c, pk, st, {}, NoBody)
    /\ UNCHANGED <<users, emails, inflight, passwords, tokens, profiles, exercises, workouts, sessions, logs, nextId, now>>

WorkoutCreate(c, body) ==
    /\ c \in users \cup {Anonymous}
    /\ body \in RequestWorkoutBodies
    /\ LET id == nextId.workout
           st == IF ~IsAuthenticated(c) THEN NotAuthenticatedStatus
                 ELSE IF ~WorkoutValid(body, FALSE) THEN HTTP_400
                 ELSE HTTP_201
       IN /\ st = HTTP_201 => id <= MaxWorkouts
          /\ IF st = HTTP_201
             THEN /\ profiles' = profiles \cup {c}      \* get_or_create
                  /\ workouts' = [w \in DOMAIN workouts \cup {id} |->
                                    IF w = id THEN NewWorkout(c, body) ELSE workouts[w]]
                  /\ nextId' = [nextId EXCEPT !.workout = id + 1]
                  /\ resp' = Response("workout_create", c, id, st, {id},
                                      [kind |-> "workout", doc |-> NewWorkout(c, body)])
             ELSE /\ UNCHANGED <<profiles, workouts, nextId>>
                  /\ resp' = Response("workout_create", c, 0, st, {}, NoBody)
    /\ UNCHANGED <<users, emails, inflight, passwords, tokens, exercises, sessions, logs, now>>

\* update (PUT, partial = FALSE) and partial_update (PATCH, partial = TRUE)
WorkoutUpdate(c, pk, body, partial) ==
    /\ c \in users \cup {Anonymous}
    /\ pk \in WorkoutIds
    /\ body \in RequestWorkoutBodies
    /\ LET op == IF partial THEN "workout_partial_update" ELSE "workout_update"
           own == WorkoutOwnerStatus(c, pk)
           saved == own = HTTP_200 /\ WorkoutValid(body, partial)
           new == UpdatedWorkout(workouts[pk], body, partial)
           st == IF own # HTTP_200 THEN own
                 ELSE IF ~WorkoutValid(body, partial) THEN HTTP_400
                 ELSE IF ~WorkoutSerializable(new) THEN HTTP_500
                 ELSE HTTP_200
       IN /\ workouts' = IF saved THEN [workouts EXCEPT ![pk] = new] ELSE workouts
          /\ resp' = IF st = HTTP_200
                     THEN Response(op, c, pk, st, {pk}, [kind |-> "workout", doc |-> new])
                     ELSE Response(op, c, pk, st, {}, NoBody)
    /\ UNCHANGED <<users, emails, inflight, passwords, tokens, profiles, exercises, sessions, logs, nextId, now>>

\* workout.delete(): the document goes, documents that reference it stay
WorkoutDestroy(c, pk) ==
    /\ c \in users \cup {Anonymous}
    /\ pk \in WorkoutIds
    /\ LET own == WorkoutOwnerStatus(c, pk)
           st == IF own # HTTP_200 THEN own ELSE HTTP_204
       IN /\ workouts' = IF st = HTTP_204
                         THEN [w \in DOMAIN workouts \ {pk} |-> workouts[w]]
                         ELSE workouts
          /\ resp' = Response("workout_destroy", c, pk, st, {}, NoBody)
    /\ UNCHANGED <<users, emails, inflight, passwords, tokens, profiles, exercises, sessions, logs, nextId, now>>

WorkoutClone(c, pk) ==
    /\ c \in users \cup {Anonymous}
    /\ pk \in WorkoutIds
    /\ LET id == nextId.workout
           view == WorkoutCloneStatus(c, pk)
           copy == ClonedWorkout(workouts[pk], c)
           st == IF view # HTTP_200 THEN view
                 ELSE IF ~WorkoutSerializable(copy) THEN HTTP_500
                 ELSE HTTP_201
       IN /\ view = HTTP_200 => id <= MaxWorkouts
          /\ IF view = HTTP_200
             THEN /\ profiles' = profiles \cup {c}      \* get_or_create
                  /\ workouts' = [w \in DOMAIN workouts \cup {id} |->
                                    IF w = id THEN copy ELSE workouts[w]]
                  /\ nextId' = [nextId EXCEPT !.workout = id + 1]
             ELSE UNCHANGED <<profiles, workouts, nextId>>
          /\ resp' = IF st = HTTP_201
                     THEN Response("workout_clone", c, pk, st, {id},
                                   [kind |-> "workout", doc |-> copy])
                     ELSE Response("workout_clone", c, pk, st, {}, NoBody)
    /\ UNCHANGED <<users, emails, inflight, passwords, tokens, exercises, sessions, logs, now>>

\* the catalog entry the administrator publishes in the workout specifications
SquatBody == [name |-> Some("squat"), difficulty |-> Some("beginner")]

\* workouts with a catalog that the administrator fills and empties
WorkoutNext ==
    \/ \E u \in Accounts, saved \in BOOLEAN : register(u, "pw1", Mailbox(u), saved)
    \/ \E c \in Callers : get_current_user(c, 0)
    \/ ExerciseCreate("root", SquatBody)
    \/ \E pk \in ExerciseIds : ExerciseDestroy("root", pk)
    \/ \E c \in Callers : WorkoutList(c)
    \/ \E c \in Callers, pk \in WorkoutIds : WorkoutRetrieve(c, pk)
    \/ \E c \in Callers, body \in WorkoutBodies : WorkoutCreate(c, body)
    \/ \E c \in Callers, pk \in WorkoutIds, body \in WorkoutBodies,
          partial \in BOOLEAN : WorkoutUpdate(c, pk, body, partial)
    \/ \E c \in Callers, pk \in WorkoutIds : WorkoutDestroy(c, pk)
    \/ \E c \in Callers, pk \in WorkoutIds : WorkoutClone(c, pk)

SpecWorkout == Init /\ [][WorkoutNext]_vars

\* who sees which workout: create, update, delete, list and retrieve
VisibilityNext ==
    \/ \E u \in Accounts, saved \in BOOLEAN : register(u, "pw1", Mailbox(u), saved)
    \/ \E c \in Callers : get_current_user(c, 0)
    \/ \E c \in Callers : WorkoutList(c)
    \/ \E c \in Callers, pk \in WorkoutIds : WorkoutRetrieve(c, pk)
    \/ \E c \in Callers, body \in WorkoutBodies : WorkoutCreate(c, body)
    \/ \E c \in Callers, pk \in WorkoutIds, body \in WorkoutBodies,
          partial \in BOOLEAN : WorkoutUpdate(c, pk, body, partial)
    \/ \E c \in Callers, pk \in WorkoutIds : WorkoutDestroy(c, pk)

SpecVisibility == Init /\ [][VisibilityNext]_vars

\* copying workouts: create, delete and clone over a published catalog
CloneNext ==
    \/ \E u \in Accounts, saved \in BOOLEAN : register(u, "pw1", Mailbox(u), saved)
    \/ \E c \in Callers : get_current_user(c, 0)
    \/ ExerciseCreate("root", SquatBody)
    \/ \E c \in Callers, body \in WorkoutBodies : WorkoutCreate(c, body)
    \/ \E c \in Callers, pk \in WorkoutIds : WorkoutDestroy(c, pk)
    \/ \E c \in Callers, pk \in WorkoutIds : WorkoutClone(c, pk)

SpecClone == Init /\ [][CloneNext]_vars

\* the update bodies of the entry-list specification: the two that supply an
\* entry list and the one of WorkoutBodies that sets estimated_duration and
\* supplies none
EntryUpdateBodies ==
    ReplacementBodies \cup {b \in WorkoutBodies : IsSome(b.estimated_duration)}

\* entry lists: the administrator fills the catalog and writes workouts whose
\* entry lists are created and replaced
EntriesNext ==
    \/ \E body \in ExerciseBodies : ExerciseCreate("root", body)
    \/ \E body \in ReplacementBodies : WorkoutCreate("root", body)
    \/ \E pk \in WorkoutIds, body \in EntryUpdateBodies,
          partial \in BOOLEAN : WorkoutUpdate("root", pk, body, partial)

SpecEntries == Init /\ [][EntriesNext]_vars

\* workout.calculate_estimated_duration() is called on a stored workout
EstimateDuration(pk) ==
    /\ pk \in DOMAIN workouts
    /\ resp' = Response("estimated_duration", Anonymous, pk, HTTP_200, {pk},
                        [kind |-> "minutes",
                         value |-> calculate_estimated_duration(workouts[pk])])
    /\ UNCHANGED <<users, emails, inflight, passwords, tokens, profiles, exercises, workouts, sessions, logs, nextId, now>>

\* estimating workouts: a catalog, workouts with no, one and two entries, and
\* the estimate of each
EstimateNext ==
    \/ \E body \in ExerciseBodies : ExerciseCreate("root", body)
    \/ \E body \in AllWorkoutBodies : WorkoutCreate("root", body)
    \/ \E pk \in WorkoutIds : WorkoutDestroy("root", pk)
    \/ \E pk \in WorkoutIds : EstimateDuration(pk)

SpecEstimate == Init /\ [][EstimateNext]_vars

\* estimating workouts whose entries carry the rest periods requests can send
RestNext ==
    \/ ExerciseCreate("root", SquatBody)
    \/ \E body \in WorkoutBodies \cup NegativeRestBodies : WorkoutCreate("root", body)
    \/ \E pk \in WorkoutIds, body \in WorkoutBodies \cup NegativeRestBodies,
          partial \in BOOLEAN : WorkoutUpdate("root", pk, body, partial)
    \/ \E pk \in WorkoutIds : EstimateDuration(pk)

SpecRest == Init /\ [][RestNext]_vars

----------------------------------------------------------------------------
(* An update and a clone step by step, with readers in between *)

\* variant: every change of the instance in memory is written to the store
StoredWhileBuildingWriteThrough(instance, pk) ==
    IF pk \in DOMAIN workouts THEN [workouts EXCEPT ![pk] = instance] ELSE workouts

\* the collection while a handler changes its instance in memory
\* (instance.exercises = [], exercises.append(...)): nothing is written
\* before save()
StoredWhileBuilding(instance, pk) == workouts

\* the entry list a request in flight saves: the entries of the body for an
\* update that supplies them, and else the entries it read (of the workout
\* for an update, of the original for a clone)
EntriesToBuild(r) ==
    IF r.op # "workout_clone" /\ IsSome(r.body.exercises)
    THEN BuildEntries(Val(r.body.exercises))
    ELSE r.loaded.exercises

\* WorkoutViewSet.update / partial_update up to the setattr loop of
\* WorkoutSerializer.update: the workout is read, the body validated, the
\* basic fields set on the instance in memory
UpdateBegin(c, pk, body, partial) ==
    /\ inflight = Idle
    /\ c \in users
    /\ pk \in WorkoutIds
    /\ body \in RequestWorkoutBodies
    /\ WorkoutOwnerStatus(c, pk) = HTTP_200
    /\ WorkoutValid(body, partial)
    /\ inflight' = [pc |-> IF IsSome(body.exercises) THEN "emptying" ELSE "saving",
                    op |-> IF partial THEN "workout_partial_update" ELSE "workout_update",
                    caller |-> c, pk |-> pk, body |-> body,
                    loaded |-> workouts[pk],
                    instance |-> [UpdatedWorkout(workouts[pk], body, partial)
                                    EXCEPT !.exercises = workouts[pk].exercises]]
    /\ UNCHANGED <<users, emails, passwords, tokens, profiles, exercises, workouts, sessions,
                   logs, nextId, now, resp>>

\* instance.exercises = []
UpdateEmpty ==
    /\ inflight.pc = "emptying"
    /\ inflight' = [inflight EXCEPT !.pc = "appending", !.instance.exercises = <<>>]
    /\ workouts' = StoredWhileBuilding(inflight'.instance, inflight.pk)
    /\ UNCHANGED <<users, emails, passwords, tokens, profiles, exercises, sessions, logs,
                   nextId, now, resp>>

\* WorkoutViewSet.clone up to the Workout(...) constructor: the original is
\* read, the profile got or created, the copy made without entries
CloneBegin(c, pk) ==
    /\ inflight = Idle
    /\ c \in users
    /\ pk \in WorkoutIds
    /\ WorkoutCloneStatus(c, pk) = HTTP_200
    /\ profiles' = profiles \cup {c}
    /\ inflight' = [pc |-> "appending", op |-> "workout_clone",
                    caller |-> c, pk |-> 0, body |-> NoBody,
                    loaded |-> workouts[pk],
                    instance |-> [ClonedWorkout(workouts[pk], c)
                                    EXCEPT !.exercises = <<>>]]
    /\ UNCHANGED <<users, emails, passwords, tokens, exercises, workouts, sessions, logs,
                   nextId, now, resp>>

\* one turn of the loop that appends an entry to the instance
AppendEntry ==
    /\ inflight.pc = "appending"
    /\ LET built == Len(inflight.instance.exercises)
           all == EntriesToBuild(inflight)
       IN  /\ inflight' = IF built < Len(all)
                          THEN [inflight EXCEPT
                                  !.instance.exercises = Append(@, all[built + 1])]
                          ELSE [inflight EXCEPT !.pc = "saving"]
           /\ workouts' = StoredWhileBuilding(inflight'.instance, inflight.pk)
    /\ UNCHANGED <<users, emails, passwords, tokens, profiles, exercises, sessions, logs,
                   nextId, now, resp>>

\* instance.save() / cloned_workout.save(): one write of the whole document;
\* the copy of a clone gets its id here
Save ==
    /\ inflight.pc = "saving"
    /\ inflight.op = "workout_clone" => nextId.workout <= MaxWorkouts
    /\ LET r == IF inflight.op = "workout_clone"
                THEN [inflight EXCEPT !.pk = nextId.workout] ELSE inflight
           st == IF ~WorkoutSerializable(r.instance) THEN HTTP_500
                 ELSE IF r.op = "workout_clone" THEN HTTP_201 ELSE HTTP_200
       IN  /\ workouts' = [w \in DOMAIN workouts \cup {r.pk} |->
                             IF w = r.pk THEN r.instance ELSE workouts[w]]
           /\ nextId' = IF r.op = "workout_clone"
                        THEN [nextId EXCEPT !.workout = r.pk + 1] ELSE nextId
           /\ resp' = IF st = HTTP_500
                      THEN Response(r.op, r.caller, r.pk, st, {}, NoBody)
                      ELSE Response(r.op, r.caller, r.pk, st, {r.pk},
                                    [kind |-> "workout", doc |-> r.instance])
    /\ inflight' = Idle
    /\ UNCHANGED <<users, emails, passwords, tokens, profiles, exercises, sessions, logs, now>>

\* one writer at a time, step by step, and readers between any two steps
AtomicNext ==
    \/ \E body \in {b \in ExerciseBodies : IsSome(b.name)} :
          ExerciseCreate("root", body)
    \/ \E body \in {b \in ReplacementBodies : IsSome(b.title)} :
          WorkoutCreate("root", body)
    \/ \E pk \in WorkoutIds, body \in ReplacementBodies :
          UpdateBegin("root", pk, body, TRUE)
    \/ UpdateEmpty
    \/ \E pk \in WorkoutIds : CloneBegin("root", pk)
    \/ AppendEntry
    \/ Save
    \/ \E pk \in WorkoutIds : WorkoutRetrieve("root", pk)

SpecAtomic == Init /\ [][AtomicNext]_vars

----------------------------------------------------------------------------
(* Sessions (WorkoutSessionViewSet, WorkoutSessionSerializer) *)

\* request bodies: each field is sent (Some) or left out (None)
SessionBodies ==
    { [workout_id |-> Some(1), status |-> None, scheduled_date |-> Some(1),
       started_at |-> None, completed_at |-> None, notes |-> Some("morning"),
       user |-> None, workout |-> None],
      [workout_id |-> Some(2), status |-> Some("skipped"), scheduled_date |-> Some(1),
       started_at |-> None, completed_at |-> None, notes |-> Some("morning"),
       user |-> Some("root"), workout |-> Some(1)],
      [workout_id |-> None, status |-> Some("cancelled"), scheduled_date |-> None,
       started_at |-> None, completed_at |-> None, notes |-> None,
       user |-> Some("alice"), workout |-> Some(2)] }

\* request bodies that carry the two timestamps, the completion before the start
StampedSessionBodies ==
    { [workout_id |-> Some(1), status |-> None, scheduled_date |-> None,
       started_at |-> Some(1), completed_at |-> Some(0), notes |-> None,
       user |-> None, workout |-> None] }

AllSessionBodies == SessionBodies \cup StampedSessionBodies

\* WorkoutSessionSerializer.is_valid(): workout_id is required unless partial,
\* and validate_workout_id runs whenever it is sent
SessionValid(body, partial) ==
    /\ partial \/ IsSome(body.workout_id)
    /\ IsSome(body.workout_id) => Val(body.workout_id) \in DOMAIN workouts

\* serializer.errors of a rejected session request
SessionErrors(body, partial) ==
    [kind |-> "errors",
     workout_id |-> IF IsSome(body.workout_id) THEN "Workout not found."
                    ELSE "This field is required."]

\* WorkoutSessionSerializer.create: user and workout are read-only fields of
\* the request; the user is the caller's profile, the workout the one workout_id names
NewSession(c, body) ==
    [user |-> c,
     workout |-> Val(body.workout_id),
     status |-> OrElse(body.status, "planned"),
     scheduled_date |-> body.scheduled_date,
     started_at |-> body.started_at,
     completed_at |-> body.completed_at,
     notes |-> body.notes]

\* variant: the session is moved to the workout that workout_id names
UpdatedSessionMovesWorkout(s, body, partial) ==
    [user |-> s.user,
     workout |-> OrElse(body.workout_id, s.workout),
     status |-> IF IsSome(body.status) THEN Val(body.status)
                ELSE IF partial THEN s.status ELSE "planned",
     scheduled_date |-> IF IsSome(body.scheduled_date)
                        THEN body.scheduled_date ELSE s.scheduled_date,
     started_at |-> IF IsSome(body.started_at) THEN body.started_at ELSE s.started_at,
     completed_at |-> IF IsSome(body.completed_at)
                      THEN body.completed_at ELSE s.completed_at,
     notes |-> IF IsSome(body.notes) THEN body.notes ELSE s.notes]

\* WorkoutSessionSerializer.update: workout_id is dropped, user and workout are
\* never written; a full update fills the declared default of status.
UpdatedSession(s, body, partial) ==
    [user |-> s.user,
     workout |-> s.workout,
     status |-> IF IsSome(body.status) THEN Val(body.status)
                ELSE IF partial THEN s.status ELSE "planned",
     scheduled_date |-> IF IsSome(body.scheduled_date)
                        THEN body.scheduled_date ELSE s.scheduled_date,
     started_at |-> IF IsSome(body.started_at) THEN body.started_at ELSE s.started_at,
     completed_at |-> IF IsSome(body.completed_at)
                      THEN body.completed_at ELSE s.completed_at,
     notes |-> IF IsSome(body.notes) THEN body.notes ELSE s.notes]

\* WorkoutSession.start_session
start_session(s) == [s EXCEPT !.status = "in_progress", !.started_at = Some(now)]

\* WorkoutSession.complete_session
complete_session(s) == [s EXCEPT !.status = "completed", !.completed_at = Some(now)]

\* variant: the minutes are rounded up
get_duration_ceil(s) ==
    IF IsSome(s.started_at) /\ IsSome(s.completed_at)
    THEN Some((Val(s.completed_at) - Val(s.started_at) + 59) \div 60)
    ELSE None

\* WorkoutSession.get_duration: whole minutes between the two timestamps (the
\* clock counts seconds), None unless both are set
get_duration(s) ==
    IF IsSome(s.started_at) /\ IsSome(s.completed_at)
    THEN Some((Val(s.completed_at) - Val(s.started_at)) \div 60)
    ELSE None

\* WorkoutSessionSerializer.to_representation dereferences instance.workout; a
\* reference to a deleted workout raises DoesNotExist, which no handler catches.
SessionSerializable(s) == s.workout \in DOMAIN workouts

\* WorkoutSessionViewSet.get_queryset before the filters
SessionQueryset(c) ==
    IF ~IsAuthenticated(c) THEN {}
    ELSE IF HasProfile(c) THEN {s \in DOMAIN sessions : sessions[s].user = c}
    ELSE {}

\* the head of retrieve/update/partial_update/destroy/start/complete:
\* the session lookup, the profile lookup, then session.user != user_profile
SessionOwnerStatus(c, pk) ==
    IF ~IsAuthenticated(c) THEN NotAuthenticatedStatus
    ELSE IF pk \notin DOMAIN sessions THEN HTTP_404
    ELSE IF ~HasProfile(c) THEN HTTP_404
    ELSE IF sessions[pk].user # c THEN HTTP_403
    ELSE HTTP_200

\* the response body carries duration_minutes = instance.get_duration()
SessionBody(s) == [kind |-> "session", doc |-> s, duration_minutes |-> get_duration(s)]

SessionList(c) ==
    /\ c \in users \cup {Anonymous}
    /\ LET st == IF ~IsAuthenticated(c) THEN NotAuthenticatedStatus
                 ELSE IF \E s \in SessionQueryset(c) : ~SessionSerializable(sessions[s])
                      THEN HTTP_500
                 ELSE HTTP_200
       IN resp' = Response("session_list", c, 0, st,
                           IF st = HTTP_200 THEN SessionQueryset(c) ELSE {}, NoBody)
    /\ UNCHANGED <<users, emails, inflight, passwords, tokens, profiles, exercises, workouts, sessions, logs, nextId, now>>

SessionRetrieve(c, pk) ==
    /\ c \in users \cup {Anonymous}
    /\ pk \in SessionIds
    /\ LET own == SessionOwnerStatus(c, pk)
           st == IF own # HTTP_200 THEN own
                 ELSE IF ~SessionSerializable(sessions[pk]) THEN HTTP_500
                 ELSE HTTP_200
       IN resp' = IF st = HTTP_200
                  THEN Response("session_retrieve", c, pk, st, {pk}, SessionBody(sessions[pk]))
                  ELSE Response("session_retrieve", c, pk, st, {}, NoBody)
    /\ UNCHANGED <<users, emails, inflight, passwords, tokens, profiles, exercises, workouts, sessions, logs, nextId, now>>

SessionCreate(c, body) ==
    /\ c \in users \cup {Anonymous}
    /\ body \in AllSessionBodies
    /\ LET id == nextId.session
           st == IF ~IsAuthenticated(c) THEN NotAuthenticatedStatus
                 ELSE IF ~SessionValid(body, FALSE) THEN HTTP_400
                 ELSE HTTP_201
       IN /\ st = HTTP_201 => id <= MaxSessions
          /\ IF st = HTTP_201
             THEN /\ profiles' = profiles \cup {c}      \* get_or_create
                  /\ sessions' = [s \in DOMAIN sessions \cup {id} |->
                                    IF s = id THEN NewSession(c, body) ELSE sessions[s]]
                  /\ nextId' = [nextId EXCEPT !.session = id + 1]
                  /\ resp' = Response("session_create", c, id, st, {id},
                                      SessionBody(NewSession(c, body)))
             ELSE /\ UNCHANGED <<profiles, sessions, nextId>>
                  /\ resp' = Response("session_create", c, 0, st, {},
                                      IF st = HTTP_400 THEN SessionErrors(body, FALSE)
                                      ELSE NoBody)
    /\ UNCHANGED <<users, emails, inflight, passwords, tokens, exercises, workouts, logs, now>>

\* update (PUT, partial = FALSE) and partial_update (PATCH, partial = TRUE)
SessionUpdate(c, pk, body, partial) ==
    /\ c \in users \cup {Anonymous}
    /\ pk \in SessionIds
    /\ body \in AllSessionBodies
    /\ LET op == IF partial THEN "session_partial_update" ELSE "session_update"
           own == SessionOwnerStatus(c, pk)
           saved == own = HTTP_200 /\ SessionValid(body, partial)
           new == UpdatedSession(sessions[pk], body, partial)
           st == IF own # HTTP_200 THEN own
                 ELSE IF ~SessionValid(body, partial) THEN HTTP_400
                 ELSE IF ~SessionSerializable(new) THEN HTTP_500
                 ELSE HTTP_200
       IN /\ sessions' = IF saved THEN [sessions EXCEPT ![pk] = new] ELSE sessions
          /\ resp' = IF st = HTTP_200
                     THEN Response(op, c, pk, st, {pk}, SessionBody(new))
                     ELSE Response(op, c, pk, st, {},
                                   IF st = HTTP_400 THEN SessionErrors(body, partial)
                                   ELSE NoBody)
    /\ UNCHANGED <<users, emails, inflight, passwords, tokens, profiles, exercises, workouts, logs, nextId, now>>

\* session.delete(): the document goes, logs that reference it stay
SessionDestroy(c, pk) ==
    /\ c \in users \cup {Anonymous}
    /\ pk \in SessionIds
    /\ LET own == SessionOwnerStatus(c, pk)
           st == IF own # HTTP_200 THEN own ELSE HTTP_204
       IN /\ sessions' = IF st = HTTP_204
                         THEN [s \in DOMAIN sessions \ {pk} |-> sessions[s]]
                         ELSE sessions
          /\ resp' = Response("session_destroy", c, pk, st, {}, NoBody)
    /\ UNCHANGED <<users, emails, inflight, passwords, tokens, profiles, exercises, workouts, logs, nextId, now>>

\* POST sessions/{id}/start/: start_session() saves, then the response is built
SessionStart(c, pk) ==
    /\ c \in users \cup {Anonymous}
    /\ pk \in SessionIds
    /\ LET own == SessionOwnerStatus(c, pk)
           new == start_session(sessions[pk])
           st == IF own # HTTP_200 THEN own
                 ELSE IF ~SessionSerializable(new) THEN HTTP_500
                 ELSE HTTP_200
       IN /\ sessions' = IF own = HTTP_200 THEN [sessions EXCEPT ![pk] = new]
                         ELSE sessions
          /\ resp' = IF st = HTTP_200
                     THEN Response("session_start", c, pk, st, {pk}, SessionBody(new))
                     ELSE Response("session_start", c, pk, st, {}, NoBody)
    /\ UNCHANGED <<users, emails, inflight, passwords, tokens, profiles, exercises, workouts, logs, nextId, now>>

\* POST sessions/{id}/complete/: complete_session() saves, then the response is built
SessionComplete(c, pk) ==
    /\ c \in users \cup {Anonymous}
    /\ pk \in SessionIds
    /\ LET own == SessionOwnerStatus(c, pk)
           new == complete_session(sessions[pk])
           st == IF own # HTTP_200 THEN own
                 ELSE IF ~SessionSerializable(new) THEN HTTP_500
                 ELSE HTTP_200
       IN /\ sessions' = IF own = HTTP_200 THEN [sessions EXCEPT ![pk] = new]
                         ELSE sessions
          /\ resp' = IF st = HTTP_200
                     THEN Response("session_complete", c, pk, st, {pk}, SessionBody(new))
                     ELSE Response("session_complete", c, pk, st, {}, NoBody)
    /\ UNCHANGED <<users, emails, inflight, passwords, tokens, profiles, exercises, workouts, logs, nextId, now>>

SessionNext ==
    \/ \E u \in Accounts, saved \in BOOLEAN : register(u, "pw1", Mailbox(u), saved)
    \/ \E c \in Callers : get_current_user(c, 0)
    \/ Tick
    \/ \E c \in Callers, body \in WorkoutBodies : WorkoutCreate(c, body)
    \/ \E c \in Callers, pk \in WorkoutIds : WorkoutDestroy(c, pk)
    \/ \E c \in Callers : SessionList(c)
    \/ \E c \in Callers, pk \in SessionIds : SessionRetrieve(c, pk)
    \/ \E c \in Callers, body \in SessionBodies : SessionCreate(c, body)
    \/ \E c \in Callers, pk \in SessionIds, body \in SessionBodies,
          partial \in BOOLEAN : SessionUpdate(c, pk, body, partial)
    \/ \E c \in Callers, pk \in SessionIds : SessionDestroy(c, pk)
    \/ \E c \in Callers, pk \in SessionIds : SessionStart(c, pk)
    \/ \E c \in Callers, pk \in SessionIds : SessionComplete(c, pk)

SpecSession == Init /\ [][SessionNext]_vars

\* the seconds that pass between two requests in the duration specification
ElapseSteps == {59, 60}

\* datetime.utcnow() is d seconds later at the next request
Elapse(d) ==
    /\ d \in ElapseSteps
    /\ now + d <= MaxClock
    /\ now' = now + d
    /\ UNCHANGED <<users, emails, inflight, passwords, tokens, profiles, exercises, workouts, sessions, logs, nextId, resp>>

\* timing a session: one workout, sessions started and completed as time passes
DurationNext ==
    \/ \E body \in WorkoutBodies : WorkoutCreate("root", body)
    \/ \E body \in SessionBodies : SessionCreate("root", body)
    \/ \E d \in ElapseSteps : Elapse(d)
    \/ \E c \in Callers, pk \in SessionIds : SessionRetrieve(c, pk)
    \/ \E c \in Callers, pk \in SessionIds : SessionStart(c, pk)
    \/ \E c \in Callers, pk \in SessionIds : SessionComplete(c, pk)

SpecDuration == Init /\ [][DurationNext]_vars

\* sessions whose timestamps are sent by requests and set by start and complete
StampNext ==
    \/ Tick
    \/ \E body \in WorkoutBodies : WorkoutCreate("root", body)
    \/ \E c \in Callers, body \in AllSessionBodies :
          SessionCreate(c, body)
    \/ \E c \in Callers, pk \in SessionIds,
          body \in AllSessionBodies, partial \in BOOLEAN :
          SessionUpdate(c, pk, body, partial)
    \/ \E c \in Callers, pk \in SessionIds : SessionStart(c, pk)
    \/ \E c \in Callers, pk \in SessionIds : SessionComplete(c, pk)

SpecStamp == Init /\ [][StampNext]_vars

\* the bodies of the ownership specification: those of WorkoutBodies that
\* carry a creator and no entry list
OwnershipBodies ==
    {b \in WorkoutBodies : IsSome(b.creator) /\ ~IsSome(b.exercises)}

\* who owns what: both accounts create, update and copy workouts and alice
\* creates sessions, with bodies that name a creator and a user
OwnershipNext ==
    \/ register("alice", "pw1", Mailbox("alice"), TRUE)
    \/ \E c \in Accounts, body \in OwnershipBodies : WorkoutCreate(c, body)
    \/ \E c \in Accounts, pk \in WorkoutIds, body \in OwnershipBodies,
          partial \in BOOLEAN : WorkoutUpdate(c, pk, body, partial)
    \/ \E c \in Accounts, pk \in WorkoutIds : WorkoutClone(c, pk)
    \/ \E body \in {b \in SessionBodies : IsSome(b.user)} :
          SessionCreate("alice", body)

SpecOwnership == Init /\ [][OwnershipNext]_vars

\* what a session is attached to: alice's sessions on root's workouts are
\* updated, started and completed by either account
AssociationNext ==
    \/ register("alice", "pw1", Mailbox("alice"), TRUE)
    \/ \E body \in WorkoutBodies : WorkoutCreate("root", body)
    \/ \E body \in SessionBodies : SessionCreate("alice", body)
    \/ \E c \in Accounts, pk \in SessionIds, body \in SessionBodies,
          partial \in BOOLEAN : SessionUpdate(c, pk, body, partial)
    \/ \E c \in Accounts, pk \in SessionIds : SessionStart(c, pk)
    \/ \E c \in Accounts, pk \in SessionIds : SessionComplete(c, pk)

SpecAssociation == Init /\ [][AssociationNext]_vars

----------------------------------------------------------------------------
(* Exercise logs (ExerciseLogViewSet, ExerciseLogSerializer) *)

\* request bodies: each field is sent (Some) or left out (None)
LogBodies ==
    { [session_id |-> Some(1), exercise_id |-> Some(1), set_number |-> Some(1),
       reps |-> Some(10)],
      [session_id |-> Some(1), exercise_id |-> Some(1), set_number |-> Some(0),
       reps |-> None],
      [session_id |-> None, exercise_id |-> None, set_number |-> Some(2),
       reps |-> None] }

\* request bodies that name another exercise and another session than the
\* ones LogBodies name
MovedLogBodies ==
    { [session_id |-> Some(1), exercise_id |-> Some(2), set_number |-> Some(3),
       reps |-> None],
      [session_id |-> Some(2), exercise_id |-> None, set_number |-> None,
       reps |-> Some(7)] }

AllLogBodies == LogBodies \cup MovedLogBodies

\* ExerciseLogSerializer.is_valid(): session_id, exercise_id and set_number are
\* required unless partial; validate_session_id and validate_exercise_id run
\* whenever the field is sent; set_number >= 1
LogValid(body, partial) ==
    /\ partial \/ (IsSome(body.session_id) /\ IsSome(body.exercise_id)
                   /\ IsSome(body.set_number))
    /\ IsSome(body.session_id) => Val(body.session_id) \in DOMAIN sessions
    /\ IsSome(body.exercise_id) => Val(body.exercise_id) \in DOMAIN exercises
    /\ IsSome(body.set_number) => Val(body.set_number) >= 1

\* ExerciseLogSerializer.create
NewLog(body) ==
    [session |-> Val(body.session_id), exercise |-> Val(body.exercise_id),
     set_number |-> Val(body.set_number), reps |-> body.reps]

\* variant: the log takes the session and the exercise the body names
UpdatedLogMovesReferences(l, body) ==
    [session |-> OrElse(body.session_id, l.session),
     exercise |-> OrElse(body.exercise_id, l.exercise),
     set_number |-> OrElse(body.set_number, l.set_number),
     reps |-> IF IsSome(body.reps) THEN body.reps ELSE l.reps]

\* ExerciseLogSerializer.update: exercise_id and session_id are dropped
UpdatedLog(l, body) ==
    [session |-> l.session, exercise |-> l.exercise,
     set_number |-> OrElse(body.set_number, l.set_number),
     reps |-> IF IsSome(body.reps) THEN body.reps ELSE l.reps]

\* ExerciseLogSerializer.to_representation dereferences instance.exercise
LogSerializable(l) == l.exercise \in DOMAIN exercises

\* ExerciseLogViewSet.get_queryset before the filters
LogQueryset(c) ==
    IF ~IsAuthenticated(c) THEN {}
    ELSE IF HasProfile(c)
         THEN {l \in DOMAIN logs : \E s \in DOMAIN sessions :
                   sessions[s].user = c /\ logs[l].session = s}
    ELSE {}

\* the head of retrieve/update/partial_update/destroy: the log lookup, the
\* profile lookup, then log.session.user != user_profile; log.session is
\* dereferenced, and a deleted session raises DoesNotExist, which is not caught
LogOwnerStatus(c, pk) ==
    IF ~IsAuthenticated(c) THEN NotAuthenticatedStatus
    ELSE IF pk \notin DOMAIN logs THEN HTTP_404
    ELSE IF ~HasProfile(c) THEN HTTP_404
    ELSE IF logs[pk].session \notin DOMAIN sessions THEN HTTP_500
    ELSE IF sessions[logs[pk].session].user # c THEN HTTP_403
    ELSE HTTP_200

\* create: serializer.is_valid() first, then the session and profile lookups
\* and session.user != user_profile
LogCreateStatus(c, body) ==
    IF ~IsAuthenticated(c) THEN NotAuthenticatedStatus
    ELSE IF ~LogValid(body, FALSE) THEN HTTP_400
    ELSE IF ~HasProfile(c) THEN HTTP_404
    ELSE IF sessions[Val(body.session_id)].user # c THEN HTTP_403
    ELSE HTTP_201

LogBody(l) == [kind |-> "log", doc |-> l]

LogList(c) ==
    /\ c \in users \cup {Anonymous}
    /\ LET st == IF ~IsAuthenticated(c) THEN NotAuthenticatedStatus
                 ELSE IF \E l \in LogQueryset(c) : ~LogSerializable(logs[l])
                      THEN HTTP_500
                 ELSE HTTP_200
       IN resp' = Response("log_list", c, 0, st,
                           IF st = HTTP_200 THEN LogQueryset(c) ELSE {}, NoBody)
    /\ UNCHANGED <<users, emails, inflight, passwords, tokens, profiles, exercises, workouts, sessions, logs, nextId, now>>

LogRetrieve(c, pk) ==
    /\ c \in users \cup {Anonymous}
    /\ pk \in LogIds
    /\ LET own == LogOwnerStatus(c, pk)
           st == IF own # HTTP_200 THEN own
                 ELSE IF ~LogSerializable(logs[pk]) THEN HTTP_500
                 ELSE HTTP_200
       IN resp' = IF st = HTTP_200
                  THEN Response("log_retrieve", c, pk, st, {pk}, LogBody(logs[pk]))
                  ELSE Response("log_retrieve", c, pk, st, {}, NoBody)
    /\ UNCHANGED <<users, emails, inflight, passwords, tokens, profiles, exercises, workouts, sessions, logs, nextId, now>>

\* the response names the session the log is filed under as its target
LogCreate(c, body) ==
    /\ c \in users \cup {Anonymous}
    /\ body \in AllLogBodies
    /\ LET id == nextId.log
           st == LogCreateStatus(c, body)
       IN /\ st = HTTP_201 => id <= MaxLogs
          /\ IF st = HTTP_201
             THEN /\ logs' = [l \in DOMAIN logs \cup {id} |->
                                IF l = id THEN NewLog(body) ELSE logs[l]]
                  /\ nextId' = [nextId EXCEPT !.log = id + 1]
                  /\ resp' = Response("log_create", c, OrElse(body.session_id, 0), st,
                                      {id}, LogBody(NewLog(body)))
             ELSE /\ UNCHANGED <<logs, nextId>>
                  /\ resp' = Response("log_create", c, OrElse(body.session_id, 0), st,
                                      {}, NoBody)
    /\ UNCHANGED <<users, emails, inflight, passwords, tokens, profiles, exercises, workouts, sessions, now>>

\* update (PUT, partial = FALSE) and partial_update (PATCH, partial = TRUE)
LogUpdate(c, pk, body, partial) ==
    /\ c \in users \cup {Anonymous}
    /\ pk \in LogIds
    /\ body \in AllLogBodies
    /\ LET op == IF partial THEN "log_partial_update" ELSE "log_update"
           own == LogOwnerStatus(c, pk)
           saved == own = HTTP_200 /\ LogValid(body, partial)
           new == UpdatedLog(logs[pk], body)
           st == IF own # HTTP_200 THEN own
                 ELSE IF ~LogValid(body, partial) THEN HTTP_400
                 ELSE IF ~LogSerializable(new) THEN HTTP_500
                 ELSE HTTP_200
       IN /\ logs' = IF saved THEN [logs EXCEPT ![pk] = new] ELSE logs
          /\ resp' = IF st = HTTP_200
                     THEN Response(op, c, pk, st, {pk}, LogBody(new))
                     ELSE Response(op, c, pk, st, {}, NoBody)
    /\ UNCHANGED <<users, emails, inflight, passwords, tokens, profiles, exercises, workouts, sessions, nextId, now>>

LogDestroy(c, pk) ==
    /\ c \in users \cup {Anonymous}
    /\ pk \in LogIds
    /\ LET own == LogOwnerStatus(c, pk)
           st == IF own # HTTP_200 THEN own ELSE HTTP_204
       IN /\ logs' = IF st = HTTP_204
                     THEN [l \in DOMAIN logs \ {pk} |-> logs[l]]
                     ELSE logs
          /\ resp' = Response("log_destroy", c, pk, st, {}, NoBody)
    /\ UNCHANGED <<users, emails, inflight, passwords, tokens, profiles, exercises, workouts, sessions, nextId, now>>

\* logging sets: a published catalog, workouts, sessions and their logs
LogNext ==
    \/ \E u \in Accounts, saved \in BOOLEAN : register(u, "pw1", Mailbox(u), saved)
    \/ \E c \in Callers : get_current_user(c, 0)
    \/ ExerciseCreate("root", SquatBody)
    \/ \E c \in Callers, body \in WorkoutBodies : WorkoutCreate(c, body)
    \/ \E c \in Callers, body \in SessionBodies : SessionCreate(c, body)
    \/ \E c \in Callers, pk \in SessionIds : SessionDestroy(c, pk)
    \/ \E c \in Callers : LogList(c)
    \/ \E c \in Callers, pk \in LogIds : LogRetrieve(c, pk)
    \/ \E c \in Callers, body \in LogBodies : LogCreate(c, body)
    \/ \E c \in Callers, pk \in LogIds, body \in LogBodies,
          partial \in BOOLEAN : LogUpdate(c, pk, body, partial)
    \/ \E c \in Callers, pk \in LogIds : LogDestroy(c, pk)

SpecLog == Init /\ [][LogNext]_vars

\* logs whose updates name another exercise and another session
LogRefNext ==
    \/ register("alice", "pw1", Mailbox("alice"), TRUE)
    \/ \E body \in {b \in ExerciseBodies : IsSome(b.name)} : ExerciseCreate("root", body)
    \/ \E body \in {b \in WorkoutBodies : IsSome(b.title)} : WorkoutCreate("root", body)
    \/ \E c \in Accounts, body \in {b \in SessionBodies : b.workout_id = Some(1)} :
          SessionCreate(c, body)
    \/ \E c \in Accounts, body \in {b \in LogBodies : IsSome(b.reps)} :
          LogCreate(c, body)
    \/ \E c \in Accounts, pk \in LogIds, body \in MovedLogBodies, partial \in BOOLEAN :
          LogUpdate(c, pk, body, partial)

SpecLogRef == Init /\ [][LogRefNext]_vars

----------------------------------------------------------------------------
(* Object permissions (permissions.IsOwnerOrReadOnly) *)

SAFE_METHODS == {"GET", "HEAD", "OPTIONS"}
Methods == SAFE_METHODS \cup {"POST", "PUT", "PATCH", "DELETE"}

\* the documents of each collection; hasattr(obj, name) is name \in DOMAIN obj
Collections == {"exercise", "workout", "session", "log"}
Documents(kind) ==
    CASE kind = "exercise" -> exercises
      [] kind = "workout" -> workouts
      [] kind = "session" -> sessions
      [] kind = "log" -> logs

\* variant: an object with neither attribute is open to every request
has_object_permission_open(method, c, obj) ==
    IF method \in SAFE_METHODS THEN TRUE
    ELSE IF "creator" \in DOMAIN obj THEN obj.creator = c
    ELSE IF "user" \in DOMAIN obj THEN obj.user = c
    ELSE TRUE

\* IsOwnerOrReadOnly.has_object_permission: a profile's user_id is the id of
\* its account, so obj.creator.user_id == request.user.id is obj.creator = c
\* (the anonymous user's id is None and equals no user_id)
has_object_permission(method, c, obj) ==
    IF method \in SAFE_METHODS THEN TRUE
    ELSE IF "creator" \in DOMAIN obj THEN obj.creator = c
    ELSE IF "user" \in DOMAIN obj THEN obj.user = c
    ELSE FALSE

\* the permission is evaluated for a request of c on a stored document
CheckObjectPermission(c, method, kind, pk) ==
    /\ c \in users \cup {Anonymous}
    /\ method \in Methods
    /\ kind \in Collections
    /\ pk \in DOMAIN Documents(kind)
    /\ resp' = Response("has_object_permission", c, pk, HTTP_200, {},
                        [kind |-> "permission", method |-> method,
                         collection |-> kind,
                         granted |-> has_object_permission(method, c,
                                                           Documents(kind)[pk])])
    /\ UNCHANGED <<users, emails, inflight, passwords, tokens, profiles, exercises, workouts, sessions,
                   logs, nextId, now>>

\* one document of every collection owned by either account, and the
\* permission evaluated on each
PermissionNext ==
    \/ register("alice", "pw1", Mailbox("alice"), TRUE)
    \/ ExerciseCreate("root", SquatBody)
    \/ \E c \in Accounts, body \in {b \in OwnershipBodies : IsSome(b.title)} :
          WorkoutCreate(c, body)
    \/ \E c \in Accounts, body \in {b \in SessionBodies : b.workout_id = Some(1)} :
          SessionCreate(c, body)
    \/ \E c \in Accounts, body \in {b \in LogBodies : IsSome(b.reps)} :
          LogCreate(c, body)
    \/ \E c \in Callers, method \in Methods, kind \in Collections, pk \in 1..2 :
          CheckObjectPermission(c, method, kind, pk)

SpecPermission == Init /\ [][PermissionNext]_vars

----------------------------------------------------------------------------
(* The whole service *)

Next ==
    \/ AuthNext
    \/ AccountNext
    \/ AtomicNext
    \/ PermissionNext
    \/ ExerciseNext
    \/ WorkoutNext
    \/ SessionNext
    \/ LogNext

Spec == Init /\ [][Next]_vars

----------------------------------------------------------------------------
(* Properties of the workout handlers *)

\* the step is a request of the handler named op (the clock steps alone leave
\* resp alone)
Handled(op) == resp'.op = op /\ now' = now

\* the step leaves every collection of the store as it was
StoreUnchanged ==
    UNCHANGED <<users, profiles, exercises, workouts, sessions, logs, nextId>>

\* C1: retrieve of an existing private workout by a caller who is not its
\* creator never returns the workout: the response is 403 for every
\* authenticated caller, with or without a profile, and 401 for an anonymous one.
C1_PrivateRetrieveRefused ==
    [][(/\ Handled("workout_retrieve")
        /\ resp'.target \in DOMAIN workouts
        /\ ~workouts[resp'.target].is_public
        /\ workouts[resp'.target].creator # resp'.caller)
       => /\ resp'.body = NoBody
          /\ resp'.status = IF resp'.caller \in users THEN HTTP_403 ELSE HTTP_401]_vars

C3_NonCreatorWriteRefused ==
    [][(/\ \/ Handled("workout_update")
           \/ Handled("workout_partial_update")
           \/ Handled("workout_destroy")
        /\ resp'.caller \in users
        /\ resp'.target \in DOMAIN workouts
        /\ workouts[resp'.target].creator # resp'.caller)
       => /\ resp'.status = HTTP_403
          /\ StoreUnchanged]_vars

\* C4: a successful clone of W by C adds exactly one workout, created by C's
\* profile, titled W.title followed by " (Copy)", private whatever W is, with
\* W's description, difficulty, tags, estimated_duration and entry list; W and
\* every other workout are unchanged.
C4_CloneIsPrivateCopy ==
    [][(Handled("workout_clone") /\ resp'.status = HTTP_201)
       => LET W == workouts[resp'.target]
              added == DOMAIN workouts' \ DOMAIN workouts
          IN /\ resp'.target \in DOMAIN workouts
             /\ Cardinality(added) = 1
             /\ resp'.ids = added
             /\ \A n \in added :
                   /\ workouts'[n].creator = resp'.caller
                   /\ resp'.caller \in profiles'
                   /\ workouts'[n].title = W.title \o " (Copy)"
                   /\ workouts'[n].is_public = FALSE
                   /\ workouts'[n].description = W.description
                   /\ workouts'[n].difficulty = W.difficulty
                   /\ workouts'[n].tags = W.tags
                   /\ workouts'[n].estimated_duration = W.estimated_duration
                   /\ workouts'[n].exercises = W.exercises
             /\ \A w \in DOMAIN workouts : workouts'[w] = workouts[w]]_vars

\* a caller has cloned another user's public workout that has an entry list,
\* and the store holds the private copy next to the public source
C4_Witness ==
    /\ resp.op = "workout_clone"
    /\ resp.status = HTTP_201
    /\ resp.target \in DOMAIN workouts
    /\ workouts[resp.target].is_public
    /\ workouts[resp.target].creator # resp.caller
    /\ Len(workouts[resp.target].exercises) > 0
    /\ \E n \in resp.ids :
          /\ n \in DOMAIN workouts
          /\ ~workouts[n].is_public
          /\ workouts[n].creator = resp.caller
          /\ workouts[n].exercises = workouts[resp.target].exercises

\* C5: clone by an authenticated caller returns 404 when the id does not
\* resolve and 403 when the source is private and the caller is not its
\* creator, a caller without a profile included; in both cases no workout and
\* no profile is created.
C5_CloneFailures ==
    [][(Handled("workout_clone") /\ resp'.caller \in users)
       => /\ resp'.target \notin DOMAIN workouts
                => /\ resp'.status = HTTP_404
                   /\ workouts' = workouts
                   /\ profiles' = profiles
          /\ (/\ resp'.target \in DOMAIN workouts
              /\ ~workouts[resp'.target].is_public
              /\ workouts[resp'.target].creator # resp'.caller)
                => /\ resp'.status = HTTP_403
                   /\ workouts' = workouts
                   /\ profiles' = profiles]_vars

----------------------------------------------------------------------------
(* Properties of the session and log handlers *)

\* C6: retrieve, update, partial update, delete, start and complete of an
\* existing session by an authenticated caller whose profile is not the
\* session's user return 403 and leave the session unchanged, and the session
\* list of a caller holds only sessions of the caller's profile.
C6_SessionIsolation ==
    [][/\ (/\ \/ Handled("session_retrieve")
              \/ Handled("session_update")
              \/ Handled("session_partial_update")
              \/ Handled("session_destroy")
              \/ Handled("session_start")
              \/ Handled("session_complete")
           /\ resp'.caller \in users
           /\ resp'.target \in DOMAIN sessions
           /\ sessions[resp'.target].user # resp'.caller)
          => /\ resp'.status = HTTP_403
             /\ sessions' = sessions
       /\ Handled("session_list")
          => \A x \in resp'.ids : sessions[x].user = resp'.caller]_vars

\* C7: for an authenticated caller, creating a log (with a body the serializer
\* accepts) under a session of another profile returns 403 and creates no log;
\* retrieve, update, partial update and delete of a log whose session belongs
\* to another profile return 403 and leave the log unchanged; the log list
\* holds only logs of the caller's sessions.
C7_LogIsolation ==
    [][/\ (/\ Handled("log_create")
           /\ resp'.status # HTTP_400
           /\ resp'.caller \in users
           /\ resp'.target \in DOMAIN sessions
           /\ sessions[resp'.target].user # resp'.caller)
          => /\ resp'.status = HTTP_403
             /\ logs' = logs
       /\ (/\ \/ Handled("log_retrieve")
              \/ Handled("log_update")
              \/ Handled("log_partial_update")
              \/ Handled("log_destroy")
           /\ resp'.caller \in users
           /\ resp'.target \in DOMAIN logs
           /\ logs[resp'.target].session \in DOMAIN sessions
           /\ sessions[logs[resp'.target].session].user # resp'.caller)
          => /\ resp'.status = HTTP_403
             /\ logs' = logs
       /\ Handled("log_list")
          => \A l \in resp'.ids :
                /\ logs[l].session \in DOMAIN sessions
                /\ sessions[logs[l].session].user = resp'.caller]_vars

\* the four catalog writes
ExerciseWriteOps ==
    {"exercise_create", "exercise_update", "exercise_partial_update", "exercise_destroy"}

\* C8 as stated: every catalog write by a caller who is not an administrator,
\* anonymous or not, is answered 403 and leaves the catalog unchanged; list and
\* retrieve are open to every caller.
C8_NonAdminWriteForbidden ==
    [][/\ (/\ resp'.op \in ExerciseWriteOps
           /\ now' = now
           /\ ~IsStaff(resp'.caller))
          => /\ resp'.status = HTTP_403
             /\ exercises' = exercises
       /\ Handled("exercise_list") => resp'.status = HTTP_200
       /\ Handled("exercise_retrieve") => resp'.status \in {HTTP_200, HTTP_404}]_vars

\* C8 (amended): a catalog write by a caller who is not an administrator leaves
\* the catalog unchanged and is answered 401 when the caller is anonymous and
\* 403 when the caller is authenticated; list answers every caller with the
\* whole catalog and retrieve answers every caller with the exercise or 404.
C8_NonAdminWriteRejected ==
    [][/\ (/\ resp'.op \in ExerciseWriteOps
           /\ now' = now
           /\ ~IsStaff(resp'.caller))
          => /\ resp'.status = IF resp'.caller \in users THEN HTTP_403 ELSE HTTP_401
             /\ exercises' = exercises
             /\ nextId' = nextId
       /\ Handled("exercise_list")
          => /\ resp'.status = HTTP_200
             /\ resp'.ids = DOMAIN exercises
       /\ Handled("exercise_retrieve")
          => resp'.status = IF resp'.target \in DOMAIN exercises
                            THEN HTTP_200 ELSE HTTP_404]_vars

\* an authenticated caller without administrator rights has been refused the
\* delete of an exercise, which is still in the catalog
C8_Witness ==
    /\ resp.op = "exercise_destroy"
    /\ resp.caller \in users
    /\ ~IsStaff(resp.caller)
    /\ resp.status = HTTP_403
    /\ resp.target \in DOMAIN exercises

\* C9: start of a session by its owner succeeds from every prior status;
\* afterwards status = in_progress and started_at = the time of the call, and
\* completed_at, scheduled_date, notes, user and workout are unchanged.
C9_StartAlwaysSucceeds ==
    [][(/\ Handled("session_start")
        /\ resp'.target \in DOMAIN sessions
        /\ resp'.caller \in profiles
        /\ sessions[resp'.target].user = resp'.caller)
       => /\ resp'.status = HTTP_200
          /\ sessions' = [sessions EXCEPT ![resp'.target] =
                            [@ EXCEPT !.status = "in_progress",
                                      !.started_at = Some(now)]]]_vars

\* C10: complete of a session by its owner succeeds from every prior status,
\* sets status = completed and completed_at = the time of the call and leaves
\* started_at unchanged; a session never started keeps started_at null and has
\* a null duration.
C10_CompleteAlwaysSucceeds ==
    [][(/\ Handled("session_complete")
        /\ resp'.target \in DOMAIN sessions
        /\ resp'.caller \in profiles
        /\ sessions[resp'.target].user = resp'.caller)
       => /\ resp'.status = HTTP_200
          /\ sessions' = [sessions EXCEPT ![resp'.target] =
                            [@ EXCEPT !.status = "completed",
                                      !.completed_at = Some(now)]]
          /\ ~IsSome(sessions[resp'.target].started_at)
                => get_duration(sessions'[resp'.target]) = None]_vars

----------------------------------------------------------------------------
(* Properties of sessions: duration and associations *)

\* m is the whole number of minutes in d seconds, rounded down
IsFloorMinutes(m, d) == 60 * m <= d /\ d < 60 * (m + 1)

\* C11: the duration a session response reports is null unless both started_at
\* and completed_at are set, and otherwise the whole minutes, rounded down, in
\* completed_at - started_at seconds; a start at T0 followed by a complete at
\* T1 reports the whole minutes between T0 and T1.
C11_DurationIsFloorMinutes ==
    [][((\/ Handled("session_retrieve")
         \/ Handled("session_start")
         \/ Handled("session_complete"))
        /\ resp'.status = HTTP_200)
       => LET S == sessions'[resp'.target]
              D == resp'.body.duration_minutes
          IN /\ (~IsSome(S.started_at) \/ ~IsSome(S.completed_at)) => D = None
             /\ (IsSome(S.started_at) /\ IsSome(S.completed_at))
                   => /\ IsSome(D)
                      /\ IsFloorMinutes(Val(D), Val(S.completed_at) - Val(S.started_at))
             /\ (/\ resp.op = "session_start"
                 /\ resp.status = HTTP_200
                 /\ resp.target = resp'.target
                 /\ resp'.op = "session_complete")
                   => /\ IsSome(D)
                      /\ IsFloorMinutes(Val(D), now - Val(sessions[resp'.target].started_at))]_vars

\* a session started at 0 and completed 119 seconds later reports 1 minute
C11_Witness ==
    /\ resp.op = "session_complete"
    /\ resp.status = HTTP_200
    /\ resp.body.doc.started_at = Some(0)
    /\ resp.body.doc.completed_at = Some(119)
    /\ resp.body.duration_minutes = Some(1)

\* C12: update, partial update, start and complete never change the user or
\* the workout a session was created with, whatever user, workout or
\* workout_id the request carries.
C12_AssociationsFixed ==
    [][\A x \in DOMAIN sessions :
          /\ x \in DOMAIN sessions'
          /\ sessions'[x].user = sessions[x].user
          /\ sessions'[x].workout = sessions[x].workout]_vars

\* a full update that sent workout_id 2, user root and workout 1 (the request
\* body that sets status skipped) has succeeded on alice's session of workout 1,
\* which is still alice's and still on workout 1
C12_Witness ==
    /\ resp.op = "session_update"
    /\ resp.status = HTTP_200
    /\ resp.body.doc.status = "skipped"
    /\ sessions[resp.target].workout = 1
    /\ sessions[resp.target].user = "alice"
    /\ 2 \in DOMAIN workouts

\* C13: an owner's update or partial update of a session is never rejected on
\* account of a workout_id the request carries, a workout_id that resolves to
\* no workout included: the field is ignored.
C13_WorkoutIdIgnored ==
    [][(/\ Handled("session_update") \/ Handled("session_partial_update")
        /\ resp'.target \in DOMAIN sessions
        /\ resp'.caller \in profiles
        /\ sessions[resp'.target].user = resp'.caller)
       => ~(/\ resp'.status = HTTP_400
            /\ resp'.body.kind = "errors"
            /\ resp'.body.workout_id = "Workout not found.")]_vars

----------------------------------------------------------------------------
(* Properties of workouts: entry lists and estimated duration *)

\* the entry list es is the supplied list sup, entry for entry in sequence
IsSuppliedList(es, sup) ==
    /\ Len(es) = Len(sup)
    /\ \A i \in 1..Len(sup) :
          /\ es[i].exercise = sup[i].exercise_id
          /\ es[i].order = sup[i].order
          /\ es[i].reps = sup[i].reps
          /\ es[i].duration = sup[i].duration

\* the non-entry fields of new are what the request body b makes of old
AnswersBody(old, new, b, partial) ==
    /\ WorkoutValid(b, partial)
    /\ IsSome(b.title) => new.title = Val(b.title)
    /\ IsSome(b.description) => new.description = Val(b.description)
    /\ IsSome(b.is_public) => new.is_public = Val(b.is_public)
    /\ IsSome(b.estimated_duration) => new.estimated_duration = b.estimated_duration
    /\ ~IsSome(b.title) => new.title = old.title
    /\ ~IsSome(b.estimated_duration) => new.estimated_duration = old.estimated_duration

\* C14: after an owner's workout update that supplies an entry list, the
\* workout's entries are exactly the supplied list in the supplied sequence
\* (no prior entry survives, nothing is merged); after one that supplies none
\* the entries are unchanged.  The request is the body the response answers.
C14_EntriesReplaced ==
    [][((Handled("workout_update") \/ Handled("workout_partial_update"))
        /\ resp'.status = HTTP_200)
       => LET old == workouts[resp'.target]
              new == workouts'[resp'.target]
              partial == resp'.op = "workout_partial_update"
          IN /\ resp'.body.doc = new
             /\ \E b \in AllWorkoutBodies :
                   /\ AnswersBody(old, new, b, partial)
                   /\ IsSome(b.exercises) => IsSuppliedList(new.exercises, Val(b.exercises))
                   /\ ~IsSome(b.exercises) => new.exercises = old.exercises]_vars

\* a workout that was given the two entries of "Pull" has had its list replaced
\* by a partial update that supplied one entry: it holds that entry alone
C14_Witness ==
    /\ resp.op = "workout_partial_update"
    /\ resp.status = HTTP_200
    /\ workouts[resp.target].title = "Pull"
    /\ Len(workouts[resp.target].exercises) = 1
    /\ workouts[resp.target].exercises[1].exercise = 1

\* the seconds the claim counts for the entries of the index set I: p * sets +
\* rest_period * (sets - 1) each, p the entry's duration if set and 30 otherwise
RECURSIVE ClaimedSeconds(_, _)
ClaimedSeconds(es, I) ==
    IF I = {} THEN 0
    ELSE LET i == CHOOSE x \in I : TRUE
             p == OrElse(es[i].duration, 30)
         IN p * es[i].sets + es[i].rest_period * (es[i].sets - 1)
            + ClaimedSeconds(es, I \ {i})

\* C15: calculate_estimated_duration is 0 for a workout without entries and
\* otherwise the whole minutes, rounded down, in 300 + the sum over the entries
\* of p * sets + rest_period * (sets - 1); one entry with sets = 3, no duration
\* and rest_period = 60 gives 8.
C15_EstimatedDuration ==
    [][Handled("estimated_duration")
       => LET es == workouts[resp'.target].exercises
              m == resp'.body.value
          IN /\ Len(es) = 0 => m = 0
             /\ Len(es) > 0
                   => IsFloorMinutes(m, 300 + ClaimedSeconds(es, 1..Len(es)))
             /\ (/\ Len(es) = 1
                 /\ es[1].sets = 3
                 /\ es[1].duration = None
                 /\ es[1].rest_period = 60) => m = 8]_vars

\* the estimate of a workout of two entries, one of them timed, has been taken:
\* 40 * 2 + 30 * 1 and 30 * 3 + 60 * 2 seconds and the 300 make 10 minutes
C15_Witness ==
    /\ resp.op = "estimated_duration"
    /\ resp.target \in DOMAIN workouts
    /\ Len(workouts[resp.target].exercises) = 2
    /\ \E i \in 1..2 : IsSome(workouts[resp.target].exercises[i].duration)
    /\ resp.body.value = 10

----------------------------------------------------------------------------
(* Properties of the store: references, names, profiles, ownership *)

\* C16: after a successful delete of a workout by its owner no session that
\* references it, and no log of such a session, remains in the store; after
\* every step every session's workout reference resolves to a stored workout.
C16_DeleteCascades ==
    [][/\ (Handled("workout_destroy") /\ resp'.status = HTTP_204)
          => /\ \A x \in DOMAIN sessions' : sessions'[x].workout # resp'.target
             /\ \A l \in DOMAIN logs' :
                   logs'[l].session \in DOMAIN sessions
                      => sessions[logs'[l].session].workout # resp'.target
       /\ \A x \in DOMAIN sessions' : sessions'[x].workout \in DOMAIN workouts']_vars

\* C17: an administrator's create or update of an exercise whose name is the
\* name of another exercise is answered 400 and leaves the catalog unchanged,
\* so no two exercises share a name: every create or update of an administrator
\* succeeds, or is answered 404 for a missing exercise, or is answered 400 with
\* the catalog unchanged.
C17_NameCollisionIs400 ==
    [][/\ (/\ \/ Handled("exercise_create")
              \/ Handled("exercise_update")
              \/ Handled("exercise_partial_update")
           /\ resp'.caller \in users
           /\ IsStaff(resp'.caller))
          => /\ resp'.status \in {HTTP_200, HTTP_201, HTTP_400, HTTP_404}
             /\ resp'.status \in {HTTP_400, HTTP_404} => exercises' = exercises
       /\ \A e, f \in DOMAIN exercises' :
             exercises'[e].name = exercises'[f].name => e = f]_vars

\* the operations that are to create a missing profile
ProfileOps ==
    {"me", "workout_list", "workout_retrieve", "workout_create", "workout_update",
     "workout_partial_update", "workout_destroy", "workout_clone",
     "session_list", "session_retrieve", "session_create", "session_update",
     "session_partial_update", "session_destroy", "session_start", "session_complete",
     "log_list", "log_retrieve", "log_create", "log_update", "log_partial_update",
     "log_destroy"}

\* C18: whenever an authenticated principal without a profile performs one of
\* these operations, its profile exists once the operation has completed, and
\* the operation is not answered 404 on an existing target.
C18_ProfileCreatedOnFirstUse ==
    [][(/\ resp'.op \in ProfileOps
        /\ now' = now
        /\ resp'.caller \in users
        /\ resp'.caller \notin profiles)
       => /\ resp'.caller \in profiles'
          /\ (resp'.op \in {"workout_retrieve", "workout_update",
                            "workout_partial_update", "workout_destroy",
                            "workout_clone"}
              /\ resp'.target \in DOMAIN workouts) => resp'.status # HTTP_404]_vars

\* C19: a token stops authenticating once it is invalidated.  A logout
\* answered 200 leaves the token it carried owned by no account; a
\* change-password answered 200 leaves the token it carried owned by no
\* account, returns a token owned by the caller and makes the new password the
\* one login accepts; a key that was issued and is owned by no account is
\* never owned again; a request carrying a key owned by no account is
\* answered 401 and one carrying an owned key 200; a login with an account's
\* current password is answered 200 with a token that account owns.
C19_TokenInvalidation ==
    [][ /\ (Handled("logout") /\ resp'.status = HTTP_200)
            => TokenOwner(tokens', resp'.target) = Anonymous
        /\ (Handled("change_password") /\ resp'.status = HTTP_200)
            => /\ TokenOwner(tokens', resp'.target) = Anonymous
               /\ IsSome(resp'.body.token)
               /\ TokenOwner(tokens', Val(resp'.body.token)) = resp'.caller
               /\ resp'.caller \in users'
               /\ passwords'[resp'.caller] = resp'.body.password
        /\ \A k \in 1..(nextId.token - 1) :
               TokenOwner(tokens, k) = Anonymous => TokenOwner(tokens', k) = Anonymous
        /\ Handled("me")
            => resp'.status = IF TokenOwner(tokens, resp'.target) = Anonymous
                              THEN HTTP_401 ELSE HTTP_200
        /\ (/\ Handled("login")
            /\ resp'.body.username \in users
            /\ passwords[resp'.body.username] = resp'.body.password)
            => /\ resp'.status = HTTP_200
               /\ IsSome(resp'.body.token)
               /\ TokenOwner(tokens', Val(resp'.body.token)) = resp'.body.username
      ]_vars

\* the only account changed its password, and a request that carried a token
\* issued to it earlier got 401 while it holds the token issued since
C19_Witness ==
    /\ resp.op = "me"
    /\ resp.status = HTTP_401
    /\ resp.target \in 1..(nextId.token - 1)
    /\ users = {"root"}
    /\ passwords["root"] = "pw2"
    /\ IsSome(tokens["root"])
    /\ Val(tokens["root"]) > resp.target

\* C20: ownership is fixed at creation.  A workout that a step adds to the
\* store was added by create or clone and its creator is the profile of the
\* caller of that request; a session that a step adds was added by create and
\* its user is the profile of the caller, whatever creator or user the request
\* body names; and no step changes the creator of a workout that stays in
\* the store.
C20_OwnershipFixedAtCreation ==
    [][ /\ \A pk \in DOMAIN workouts' \ DOMAIN workouts :
               /\ Handled("workout_create") \/ Handled("workout_clone")
               /\ workouts'[pk].creator = resp'.caller
               /\ resp'.caller \in profiles'
        /\ \A pk \in DOMAIN sessions' \ DOMAIN sessions :
               /\ Handled("session_create")
               /\ sessions'[pk].user = resp'.caller
               /\ resp'.caller \in profiles'
        /\ \A pk \in DOMAIN workouts \cap DOMAIN workouts' :
               workouts'[pk].creator = workouts[pk].creator
      ]_vars

\* root created a workout from a body naming alice as creator and owns it,
\* alice owns the copy she cloned from it, and alice owns the session she
\* created from a body naming root as user
C20_Witness ==
    /\ 2 \in DOMAIN workouts
    /\ workouts[1].title = "Core"
    /\ workouts[1].creator = "root"
    /\ workouts[2].title = "Core (Copy)"
    /\ workouts[2].creator = "alice"
    /\ 1 \in DOMAIN sessions
    /\ sessions[1].status = "skipped"
    /\ sessions[1].user = "alice"

\* C21: the owner-or-read-only rule permits every request of a safe method;
\* a request of an unsafe method is permitted exactly when the caller is the
\* owner of the object, the creator of an object that has one and else the
\* user of an object that has one; an unsafe request on an object with
\* neither is denied.
C21_OwnerOrReadOnly ==
    [][ Handled("has_object_permission") =>
          LET obj == Documents(resp'.body.collection)[resp'.target]
              unsafe == resp'.body.method \notin {"GET", "HEAD", "OPTIONS"}
              owned == \/ resp'.body.collection = "workout" /\ obj.creator = resp'.caller
                       \/ resp'.body.collection = "session" /\ obj.user = resp'.caller
          IN  /\ ~unsafe => resp'.body.granted
              /\ unsafe => (resp'.body.granted <=> owned)
              /\ (unsafe /\ resp'.body.collection \in {"exercise", "log"})
                    => ~resp'.body.granted
      ]_vars

\* the rule was evaluated for a DELETE by the administrator on a log of the
\* administrator's own session, and denied it
C21_Witness ==
    /\ resp.op = "has_object_permission"
    /\ resp.body.method = "DELETE"
    /\ resp.body.collection = "log"
    /\ resp.caller = "root"
    /\ sessions[logs[resp.target].session].user = "root"
    /\ ~resp.body.granted

\* the operations that address a document of each collection by id
ExerciseIdOps ==
    {"exercise_retrieve", "exercise_update", "exercise_partial_update",
     "exercise_destroy"}
WorkoutIdOps ==
    {"workout_retrieve", "workout_update", "workout_partial_update",
     "workout_destroy", "workout_clone"}
SessionIdOps ==
    {"session_retrieve", "session_update", "session_partial_update",
     "session_destroy", "session_start", "session_complete"}
LogIdOps ==
    {"log_retrieve", "log_update", "log_partial_update", "log_destroy"}

\* the request of the step addressed an id that resolves to no document
UnresolvedId ==
    \/ resp'.op \in ExerciseIdOps /\ resp'.target \notin DOMAIN exercises
    \/ resp'.op \in WorkoutIdOps /\ resp'.target \notin DOMAIN workouts
    \/ resp'.op \in SessionIdOps /\ resp'.target \notin DOMAIN sessions
    \/ resp'.op \in LogIdOps /\ resp'.target \notin DOMAIN logs

\* C22: a request of an authenticated caller that addresses an exercise,
\* workout, session or log by an id that does not resolve is answered 404,
\* whoever the caller is.
C22_NotFoundBeforeForbidden ==
    [][ (now' = now /\ UnresolvedId /\ resp'.caller \in users)
          => resp'.status = HTTP_404 ]_vars

\* C23: in every state the entries of every workout stand in strictly
\* increasing order value, so no two share one and the list is iterated by
\* increasing order.
C23_EntriesOrdered ==
    \A pk \in DOMAIN workouts :
        \A i, j \in 1..Len(workouts[pk].exercises) :
            i < j => workouts[pk].exercises[i].order < workouts[pk].exercises[j].order

\* C24: started_at is changed by the start operation alone and completed_at
\* by the complete operation alone: a session that a create adds has both
\* null, and every other step leaves both as they were.
C24_StampsSetByTransitionsOnly ==
    [][ /\ \A pk \in DOMAIN sessions' \ DOMAIN sessions :
               /\ sessions'[pk].started_at = None
               /\ sessions'[pk].completed_at = None
        /\ \A pk \in DOMAIN sessions \cap DOMAIN sessions' :
               /\ sessions'[pk].started_at # sessions[pk].started_at
                     => Handled("session_start")
               /\ sessions'[pk].completed_at # sessions[pk].completed_at
                     => Handled("session_complete")
      ]_vars

\* C25: every entry of every stored workout has sets >= 1 and a rest
\* contribution rest_period * (sets - 1) >= 0, and calculate_estimated_duration
\* of a stored workout is at least 5 when it has an entry and is never negative.
C25_EstimateNeverNegative ==
    \A pk \in DOMAIN workouts :
        LET es == workouts[pk].exercises IN
        /\ \A i \in 1..Len(es) :
               es[i].sets >= 1 /\ es[i].rest_period * (es[i].sets - 1) >= 0
        /\ Len(es) > 0 => calculate_estimated_duration(workouts[pk]) >= 5
        /\ calculate_estimated_duration(workouts[pk]) >= 0

\* the step is a retrieve answered with a workout while a writer is in flight
ReadInFlight ==
    /\ Handled("workout_retrieve")
    /\ inflight' = inflight
    /\ inflight # Idle
    /\ resp'.status = HTTP_200

\* the workouts other than pk are stored as they were
OthersUnchanged(pk) ==
    /\ DOMAIN workouts' = DOMAIN workouts \cup {pk}
    /\ \A w \in DOMAIN workouts \ {pk} : workouts'[w] = workouts[w]

\* C26: a reader never observes a partial write.  A retrieve of the workout
\* that an update in flight is rewriting returns the complete entry list the
\* update read; a step of a writer in flight leaves the store as it was
\* until its save, and the save stores the one workout of the request with
\* its complete entry list: the list of the body for an update, every entry
\* of the original for a clone, which enters the store only then.
C26_NoPartialWriteVisible ==
    [][ /\ (ReadInFlight /\ resp'.target = inflight.pk)
            => resp'.body.doc.exercises = inflight.loaded.exercises
        /\ (inflight' # inflight /\ inflight' # Idle) => workouts' = workouts
        /\ (inflight # Idle /\ inflight' = Idle)
            => LET pk == IF inflight.op = "workout_clone"
                         THEN nextId.workout ELSE inflight.pk
               IN  /\ inflight.op = "workout_clone" => pk \notin DOMAIN workouts
                   /\ OthersUnchanged(pk)
                   /\ workouts'[pk].exercises = EntriesToBuild(inflight)
      ]_vars

\* a reader got the two old entries of a workout while the update that
\* replaces them held one entry of its new list in memory
C26_Witness ==
    /\ resp.op = "workout_retrieve"
    /\ resp.status = HTTP_200
    /\ inflight # Idle
    /\ inflight.op = "workout_partial_update"
    /\ inflight.pc = "appending"
    /\ resp.target = inflight.pk
    /\ Len(resp.body.doc.exercises) = 2
    /\ Len(inflight.instance.exercises) = 1
    /\ Len(EntriesToBuild(inflight)) = 1

\* C27: a session is created only for a workout its caller may view: every
\* session a step adds to the store refers to a workout that is public or
\* was created by the user of the session, and no session response answered
\* to a caller carries a private workout of another creator.
C27_SessionOnViewableWorkout ==
    [][ /\ \A pk \in DOMAIN sessions' \ DOMAIN sessions :
               LET w == sessions'[pk].workout IN
               w \in DOMAIN workouts =>
                   workouts[w].is_public \/ workouts[w].creator = sessions'[pk].user
        /\ (Handled("session_create") /\ resp'.status = HTTP_201)
            => LET w == resp'.body.doc.workout IN
               w \in DOMAIN workouts =>
                   workouts[w].is_public \/ workouts[w].creator = resp'.caller
      ]_vars

\* C28: in every state, a session with both timestamps set has
\* started_at <= completed_at, and get_duration() of a session is >= 0
\* whenever it is not null.
C28_DurationNeverNegative ==
    \A pk \in DOMAIN sessions :
        LET s == sessions[pk] IN
        (IsSome(s.started_at) /\ IsSome(s.completed_at))
            => /\ Val(s.started_at) <= Val(s.completed_at)
               /\ Val(get_duration(s)) >= 0

C30_EmailsUnique ==
    \A a, b \in users : a # b => emails[a] # emails[b]

====
